---- MODULE Spec2Model ----
(***************************************************************************)
(* Verification model of tobi/vbo-parser: the session synchronizer         *)
(* (SessionComparison), the lap detector (LapDetection) and the parser     *)
(* (VBOParser).                                                            *)
(*                                                                         *)
(* A session is modelled by what the synchronizer reads of it: the number  *)
(* of samples of each lap (lap.dataPoints.length), the lap numbers and the *)
(* circuit name.  Sessions are identified by an integer handle that stands *)
(* for the object identity the code uses as Map key.  Progress values are  *)
(* exact rationals [num, den]; the code computes them in IEEE doubles.     *)
(* Indices are 0-based as in the code; sequences are 1-based, so lap l of  *)
(* session s is laps[s][l + 1].                                            *)
(***************************************************************************)
EXTENDS Integers, Sequences, FiniteSets, TLC

VARIABLES
    laps,                \* session -> sequence of lap.dataPoints.length
    lapNumbers,          \* session -> sequence of lap.lapNumber
    circuit,             \* session -> circuitInfo.circuit (0: unknown)
    comparatorSessions,  \* this.comparatorSessions (sequence of sessions)
    options,             \* this.options
    states,              \* this.states (session -> SessionState or NoState)
    lastOp,              \* name of the last call made
    lastArgs,            \* its arguments
    lastOk,              \* FALSE when that call raised an error
    result,              \* value returned by the last query
    calls,               \* number of calls made (counted in SpecLong only)
    dataPoints,          \* LapDetection.detectLaps: the samples given
    opts,                \* LapDetection.detectLaps: the merged options
    detectedLaps,        \* LapDetection.detectLaps: the laps returned, or NotRun
    lapList,             \* LapDetection.findBestSectorTimes: the laps given
    bestTimes,           \* LapDetection.findBestSectorTimes: the map returned
    lines,               \* VBOParser.parseVBOContent: content.split(/\r?\n/)
    maxDataPoints,       \* VBOParser: options.maxDataPoints
    parsed,              \* VBOParser.parseVBOContent: the session or the error
    endpoints,           \* calculateDistance: <<lat1, lng1, lat2, lng2>>
    distances            \* calculateDistance: what the two classes return

vars == <<laps, lapNumbers, circuit, comparatorSessions, options, states,
          lastOp, lastArgs, lastOk, result, calls,
          dataPoints, opts, detectedLaps,
          lapList, bestTimes, lines, maxDataPoints, parsed, endpoints, distances>>

(***************************************************************************)
(* Bounds of the model                                                     *)
(***************************************************************************)
NumSessions == 2        \* session objects in play (1 is the main session)
MaxTotal == 3           \* most samples in one session
MaxSamples == 5         \* most samples in the sessions compared, together
MaxComparators == 1     \* longest comparator list
NumCircuits == 2        \* distinct circuit names
MaxCtorLaps == 2        \* most laps of a session handed to the constructor
MaxCtorSamples == 1     \* most samples of such a lap
LongLap == 10002        \* samples of the lap of a long session
MaxCalls == 2           \* calls made on a long session
MaxSteps == 3           \* largest step count given to advanceMain / rewindMain
ProgressDen == 4        \* setMainProgress is called with k / ProgressDen
MaxPoints == 3          \* most samples given to detectLaps
MaxTime == 2            \* sample times are in 0..MaxTime
MaxLapNo == 2           \* sample lap numbers are in 0..MaxLapNo
MaxOffset == 1          \* largest distance between consecutive samples
MaxShort == 1           \* most samples of a short input without lap numbers
MaxExtra == 2           \* samples beyond MinGpsPoints in a long input
MaxTick == 4            \* seconds between consecutive samples of a long input
GpsStride == 10         \* metres between consecutive samples of a moving car
MaxSectorPoints == 5    \* most samples of the lap that is cut into sectors
MaxSectorCount == 7     \* largest sector count asked for
MaxBestLaps == 2        \* most laps given to findBestSectorTimes
MaxBestSectors == 2     \* most sectors of such a lap
MaxSectorTime == 1      \* sector times of such a lap are in 0..MaxSectorTime
MaxBody == 3            \* most lines under [data]
MaxCap == 2             \* largest maxDataPoints
MaxRows == 2            \* most rows of a file of timed or located rows
MaxBefore == 2          \* time fields go down to -MaxBefore
MaxAfter == 1           \* small time fields go up to MaxAfter
MaxQuarterTurns == 3    \* coordinates are in -90 * MaxQuarterTurns..90 * MaxQuarterTurns

Sessions == 1..NumSessions
mainSession == 1

(***************************************************************************)
(* Exact rational arithmetic                                               *)
(***************************************************************************)
Rat(n, d) == [num |-> n, den |-> d]
Abs(x) == IF x < 0 THEN -x ELSE x
Min(a, b) == IF a < b THEN a ELSE b
Max(a, b) == IF a > b THEN a ELSE b
RECURSIVE GCD(_, _)
GCD(a, b) == IF b = 0 THEN a ELSE GCD(b, a % b)
\* comparisons cross-multiply, except over a common denominator
RLess(a, b) == IF a.den = b.den THEN a.num < b.num
               ELSE a.num * b.den < b.num * a.den
RLeq(a, b) == IF a.den = b.den THEN a.num <= b.num
              ELSE a.num * b.den <= b.num * a.den
REq(a, b) == IF a.den = b.den THEN a.num = b.num
             ELSE a.num * b.den = b.num * a.den
\* |a - b| over the least common denominator
RAbsDiff(a, b) ==
    LET g == GCD(a.den, b.den)
    IN Rat(Abs(a.num * (b.den \div g) - b.num * (a.den \div g)),
           (a.den \div g) * b.den)
\* floor of a non-negative rational
RFloor(a) == a.num \div a.den
\* Math.round of a non-negative rational: floor(x + 0.5)
RRound(a) == (2 * a.num + a.den) \div (2 * a.den)
\* the initial bestDifference; 1/0 compares above every rational
Infinity == Rat(1, 0)
\* the early-exit threshold 0.0001 of findClosestProgressPoint
ExactMatch == Rat(1, 10000)

(***************************************************************************)
(* Values                                                                  *)
(***************************************************************************)
NoState == [tracked |-> FALSE]         \* states.get(session) === undefined
Thrown == [threw |-> TRUE]             \* the call raised an Error
NoResult == [threw |-> FALSE, none |-> TRUE]

RECURSIVE SumSeq(_)
SumSeq(s) == IF s = <<>> THEN 0 ELSE Head(s) + SumSeq(Tail(s))

\* sessions the constructor accepts: 1..MaxTotal samples in non-empty laps
ValidShapes ==
    {s \in UNION {[1..k -> 1..MaxTotal] : k \in 1..MaxTotal} : SumSeq(s) <= MaxTotal}

Range(seq) == {seq[i] : i \in 1..Len(seq)}

\* comparator lists; the sessions other than the main one are interchangeable,
\* so a list names them in order of first use
RECURSIVE InOrderOfUse(_, _)
InOrderOfUse(list, used) ==
    \/ list = <<>>
    \/ /\ Head(list) <= used + 1
       /\ InOrderOfUse(Tail(list), IF Head(list) > used THEN Head(list) ELSE used)
ComparatorLists ==
    {list \in UNION {[1..k -> Sessions] : k \in 0..MaxComparators} :
        InOrderOfUse(list, mainSession)}

\* the sessions handed to the constructor
Passed(list) == {mainSession} \cup Range(list)
\* a session that is never handed to the constructor: one lap of one sample
Bystander == <<1>>

\* any list of laps, empty laps included
CtorShapes == UNION {[1..k -> 0..MaxCtorSamples] : k \in 0..MaxCtorLaps}

\* lap numbers as detectFromGPS assigns them: 1, 2, ...
NumberedFromOne(shape) == [i \in 1..Len(shape) |-> i]

Circuits == 0..NumCircuits

\* the default of options.progressTolerance
DefaultProgressTolerance == Rat(1, 100)

(***************************************************************************)
(* SessionComparison                                                       *)
(***************************************************************************)
calculateNormalizedPosition(session, lapIndex, dataPointIndex) ==
    IF lapIndex \notin 0..(Len(laps[session]) - 1) THEN Thrown
    ELSE
      LET n == laps[session][lapIndex + 1] IN
      IF dataPointIndex \notin 0..(n - 1) THEN Thrown
      ELSE
        LET lapProgress == IF n > 1 THEN Rat(dataPointIndex, n - 1) ELSE Rat(0, 1)
            totalLaps == Len(laps[session])
            completedLaps == lapIndex
            sessionProgress ==
                IF totalLaps > 0
                THEN Rat(completedLaps * lapProgress.den + lapProgress.num,
                         lapProgress.den * totalLaps)
                ELSE Rat(0, 1)
        IN [threw |-> FALSE,
            lapNumber |-> lapNumbers[session][lapIndex + 1],
            lapProgress |-> lapProgress,
            sessionProgress |-> sessionProgress,
            dataPointIndex |-> dataPointIndex,
            normalizedProgress |-> sessionProgress]

MkState(lapIndex, dataPointIndex, position) ==
    [tracked |-> TRUE,
     currentLapIndex |-> lapIndex,
     currentDataPointIndex |-> dataPointIndex,
     position |-> position]

\* initializeStates, run on the map st
RECURSIVE InitializeLoop(_, _)
InitializeLoop(allSessions, st) ==
    IF allSessions = <<>> THEN st
    ELSE InitializeLoop(Tail(allSessions),
            [st EXCEPT ![Head(allSessions)] =
                MkState(0, 0, calculateNormalizedPosition(Head(allSessions), 0, 0))])

initializeStates(st) == InitializeLoop(<<mainSession>> \o comparatorSessions, st)

\* the first loop of validateSessions: sessions without laps, laps without data points
RECURSIVE ValidateLapsLoop(_)
ValidateLapsLoop(allSessions) ==
    IF allSessions = <<>> THEN FALSE
    ELSE LET session == Head(allSessions) IN
         IF Len(laps[session]) = 0 THEN TRUE
         ELSE IF \E i \in 1..Len(laps[session]) : laps[session][i] = 0 THEN TRUE
         ELSE ValidateLapsLoop(Tail(allSessions))

\* the second loop of validateSessions: track compatibility
RECURSIVE ValidateTracksLoop(_)
ValidateTracksLoop(rest) ==
    IF rest = <<>> THEN FALSE
    ELSE LET mainCircuit == circuit[mainSession]
             c == circuit[Head(rest)]
         IN IF mainCircuit # 0 /\ c # 0 /\ mainCircuit # c THEN TRUE
            ELSE ValidateTracksLoop(Tail(rest))

\* validateSessions without the track compatibility check
validateSessions_NoTracks ==
    ValidateLapsLoop(<<mainSession>> \o comparatorSessions)

\* TRUE when validateSessions throws
validateSessions ==
    IF ValidateLapsLoop(<<mainSession>> \o comparatorSessions) THEN TRUE
    ELSE IF ~options.allowDifferentTracks
         THEN ValidateTracksLoop(comparatorSessions)
         ELSE FALSE

NoStates == [s \in Sessions |-> NoState]

\* the constructor: [threw, states]
constructor ==
    IF validateSessions THEN [threw |-> TRUE, states |-> NoStates]
    ELSE [threw |-> FALSE, states |-> initializeStates(NoStates)]

getMainState == states[mainSession]

getComparatorState(index) ==
    IF index < 0 \/ index >= Len(comparatorSessions) THEN NoState
    ELSE states[comparatorSessions[index + 1]]

\* body of the inner loop of findClosestProgressPoint at one (lapIndex, pointIndex);
\* acc = [bestLapIndex, bestDataPointIndex, bestDifference, returned]
ClosestStep(session, targetProgress, lapIndex, pointIndex, acc) ==
    IF acc.returned THEN acc
    ELSE
      LET position == calculateNormalizedPosition(session, lapIndex, pointIndex)
          difference == RAbsDiff(position.normalizedProgress, targetProgress)
          better == RLess(difference, acc.bestDifference)
          acc1 == IF better
                  THEN [acc EXCEPT !.bestDifference = difference,
                                   !.bestLapIndex = lapIndex,
                                   !.bestDataPointIndex = pointIndex]
                  ELSE acc
      IN IF RLess(difference, ExactMatch)
         THEN [acc1 EXCEPT !.returned = TRUE]
         ELSE acc1

\* the inner loop over pointIndex = lo..hi in ascending order (the range is
\* halved to keep the evaluation depth logarithmic; the order of the steps is
\* that of the for loop)
RECURSIVE ClosestPointLoop(_, _, _, _, _, _)
ClosestPointLoop(session, targetProgress, lapIndex, lo, hi, acc) ==
    IF lo > hi \/ acc.returned THEN acc
    ELSE IF lo = hi THEN ClosestStep(session, targetProgress, lapIndex, lo, acc)
    ELSE LET mid == (lo + hi) \div 2
             left == ClosestPointLoop(session, targetProgress, lapIndex, lo, mid, acc)
         IN ClosestPointLoop(session, targetProgress, lapIndex, mid + 1, hi, left)

\* the outer loop over lapIndex
RECURSIVE ClosestLapLoop(_, _, _, _)
ClosestLapLoop(session, targetProgress, lapIndex, acc) ==
    IF lapIndex >= Len(laps[session]) \/ acc.returned THEN acc
    ELSE ClosestLapLoop(session, targetProgress, lapIndex + 1,
            ClosestPointLoop(session, targetProgress, lapIndex,
                             0, laps[session][lapIndex + 1] - 1, acc))

\* findClosestProgressPoint falling back to the first sample when the best
\* match is farther than the tolerance
findClosestWithTolerance_Reject(session, targetProgress, progressTolerance) ==
    LET acc == ClosestLapLoop(session, targetProgress, 0,
                   [bestLapIndex |-> 0, bestDataPointIndex |-> 0,
                    bestDifference |-> Infinity, returned |-> FALSE])
        best == [lapIndex |-> acc.bestLapIndex,
                 dataPointIndex |-> acc.bestDataPointIndex]
    IN IF acc.returned THEN best
       ELSE IF RLeq(acc.bestDifference, progressTolerance) THEN best
       ELSE [lapIndex |-> 0, dataPointIndex |-> 0]

findClosestWithTolerance(session, targetProgress, progressTolerance) ==
    LET acc == ClosestLapLoop(session, targetProgress, 0,
                   [bestLapIndex |-> 0, bestDataPointIndex |-> 0,
                    bestDifference |-> Infinity, returned |-> FALSE])
        best == [lapIndex |-> acc.bestLapIndex,
                 dataPointIndex |-> acc.bestDataPointIndex]
    IN IF acc.returned THEN best
       ELSE IF RLeq(acc.bestDifference, progressTolerance) THEN best
       ELSE best

\* findClosestProgressPoint going on to the first sample of the next lap when
\* it is as close as the last sample of the lap found
findClosestProgressPoint_NextLap(session, targetProgress) ==
    LET best == findClosestWithTolerance(session, targetProgress,
                                         options.progressTolerance)
        next == best.lapIndex + 1
    IN IF /\ best.dataPointIndex = laps[session][best.lapIndex + 1] - 1
          /\ next < Len(laps[session])
          /\ REq(calculateNormalizedPosition(session, next, 0).normalizedProgress,
                 calculateNormalizedPosition(session, best.lapIndex,
                     best.dataPointIndex).normalizedProgress)
       THEN [lapIndex |-> next, dataPointIndex |-> 0]
       ELSE best

findClosestProgressPoint(session, targetProgress) ==
    findClosestWithTolerance(session, targetProgress, options.progressTolerance)

\* the loop of syncComparatorsToMain storing the new indices of a comparator
\* next to the position record it had
RECURSIVE SyncLoop_StalePosition(_, _, _)
SyncLoop_StalePosition(rest, targetProgress, st) ==
    IF rest = <<>> THEN st
    ELSE
      LET comparatorSession == Head(rest)
          closestPoint == findClosestProgressPoint(comparatorSession, targetProgress)
      IN SyncLoop_StalePosition(Tail(rest), targetProgress,
            [st EXCEPT ![comparatorSession] =
                MkState(closestPoint.lapIndex, closestPoint.dataPointIndex,
                        st[comparatorSession].position)])

\* the loop of syncComparatorsToMain over this.comparatorSessions
RECURSIVE SyncLoop(_, _, _)
SyncLoop(rest, targetProgress, st) ==
    IF rest = <<>> THEN st
    ELSE
      LET comparatorSession == Head(rest)
          closestPoint == findClosestProgressPoint(comparatorSession, targetProgress)
          position == calculateNormalizedPosition(comparatorSession,
                          closestPoint.lapIndex, closestPoint.dataPointIndex)
      IN SyncLoop(Tail(rest), targetProgress,
            [st EXCEPT ![comparatorSession] =
                MkState(closestPoint.lapIndex, closestPoint.dataPointIndex, position)])

\* syncComparatorsToMain leaving the position records as they were
syncComparatorsToMain_StalePosition(st) ==
    LET mainState == st[mainSession]
    IN SyncLoop_StalePosition(comparatorSessions,
                              mainState.position.normalizedProgress, st)

syncComparatorsToMain(st) ==
    LET mainState == st[mainSession]
    IN SyncLoop(comparatorSessions, mainState.position.normalizedProgress, st)

\* every mutator below returns [threw, states]: the error flag and the map after the call
Raise(st) == [threw |-> TRUE, states |-> st]
Return(st) == [threw |-> FALSE, states |-> st]

\* setMainPosition clamping a sample index past the end of the lap
setMainPosition_Clamp(st, lapIndex, dataPointIndex) ==
    LET session == mainSession IN
    IF lapIndex < 0 \/ lapIndex >= Len(laps[session]) THEN Raise(st)
    ELSE IF dataPointIndex < 0 THEN Raise(st)
    ELSE
      LET d == Min(dataPointIndex, laps[session][lapIndex + 1] - 1)
          position == calculateNormalizedPosition(session, lapIndex, d)
      IN Return(syncComparatorsToMain(
            [st EXCEPT ![session] = MkState(lapIndex, d, position)]))

setMainPosition(st, lapIndex, dataPointIndex) ==
    LET session == mainSession IN
    IF lapIndex < 0 \/ lapIndex >= Len(laps[session]) THEN Raise(st)
    ELSE IF dataPointIndex < 0 \/ dataPointIndex >= laps[session][lapIndex + 1]
    THEN Raise(st)
    ELSE
      LET position == calculateNormalizedPosition(session, lapIndex, dataPointIndex)
      IN Return(syncComparatorsToMain(
            [st EXCEPT ![session] = MkState(lapIndex, dataPointIndex, position)]))

\* the for loop of advanceMain; cur = [lapIndex, dataPointIndex, break]
RECURSIVE AdvanceLoop(_, _, _)
AdvanceLoop(i, steps, cur) ==
    IF i >= steps \/ cur.break THEN cur
    ELSE
      LET lapLen == laps[mainSession][cur.lapIndex + 1]
          dataPointIndex == cur.dataPointIndex + 1
      IN IF dataPointIndex >= lapLen
         THEN IF cur.lapIndex + 1 >= Len(laps[mainSession])
              THEN [lapIndex |-> Len(laps[mainSession]) - 1,
                    dataPointIndex |-> laps[mainSession][Len(laps[mainSession])] - 1,
                    break |-> TRUE]
              ELSE AdvanceLoop(i + 1, steps,
                      [lapIndex |-> cur.lapIndex + 1, dataPointIndex |-> 0,
                       break |-> FALSE])
         ELSE AdvanceLoop(i + 1, steps,
                 [cur EXCEPT !.dataPointIndex = dataPointIndex])

advanceMain(st, steps) ==
    LET state == st[mainSession] IN
    IF ~state.tracked THEN Raise(st)
    ELSE LET end == AdvanceLoop(0, steps,
                       [lapIndex |-> state.currentLapIndex,
                        dataPointIndex |-> state.currentDataPointIndex,
                        break |-> FALSE])
         IN setMainPosition(st, end.lapIndex, end.dataPointIndex)

\* the for loop of rewindMain
RECURSIVE RewindLoop(_, _, _)
RewindLoop(i, steps, cur) ==
    IF i >= steps \/ cur.break THEN cur
    ELSE
      LET dataPointIndex == cur.dataPointIndex - 1
      IN IF dataPointIndex < 0
         THEN IF cur.lapIndex - 1 < 0
              THEN [lapIndex |-> 0, dataPointIndex |-> 0, break |-> TRUE]
              ELSE RewindLoop(i + 1, steps,
                      [lapIndex |-> cur.lapIndex - 1,
                       dataPointIndex |-> laps[mainSession][cur.lapIndex] - 1,
                       break |-> FALSE])
         ELSE RewindLoop(i + 1, steps,
                 [cur EXCEPT !.dataPointIndex = dataPointIndex])

rewindMain(st, steps) ==
    LET state == st[mainSession] IN
    IF ~state.tracked THEN Raise(st)
    ELSE LET end == RewindLoop(0, steps,
                       [lapIndex |-> state.currentLapIndex,
                        dataPointIndex |-> state.currentDataPointIndex,
                        break |-> FALSE])
         IN setMainPosition(st, end.lapIndex, end.dataPointIndex)

\* Array.prototype.findIndex over the lap numbers: first match, or -1
RECURSIVE FindLapIndex(_, _, _)
FindLapIndex(numbers, lapNumber, i) ==
    IF i >= Len(numbers) THEN -1
    ELSE IF numbers[i + 1] = lapNumber THEN i
    ELSE FindLapIndex(numbers, lapNumber, i + 1)

jumpToLap(st, lapNumber) ==
    LET lapIndex == FindLapIndex(lapNumbers[mainSession], lapNumber, 0) IN
    IF lapIndex = -1 THEN Raise(st)
    ELSE setMainPosition(st, lapIndex, 0)

\* setMainProgress without the special case for progress = 1
setMainProgress_NoEdge(st, progress) ==
    IF RLess(progress, Rat(0, 1)) \/ RLess(Rat(1, 1), progress) THEN Raise(st)
    ELSE
      LET totalLaps == Len(laps[mainSession])
          lapPosition == Rat(progress.num * totalLaps, progress.den)
          lapIndex == RFloor(lapPosition)
          lapProgress == Rat(lapPosition.num - lapIndex * lapPosition.den,
                             lapPosition.den)
      IN IF lapIndex \notin 0..(totalLaps - 1) THEN Raise(st)
         ELSE LET n == laps[mainSession][lapIndex + 1]
                  dataPointIndex == RRound(Rat(lapProgress.num * (n - 1),
                                               lapProgress.den))
              IN setMainPosition(st, lapIndex, dataPointIndex)

setMainProgress(st, progress) ==
    IF RLess(progress, Rat(0, 1)) \/ RLess(Rat(1, 1), progress) THEN Raise(st)
    ELSE
      LET totalLaps == Len(laps[mainSession]) IN
      IF REq(progress, Rat(1, 1))
      THEN LET lastLapIndex == totalLaps - 1 IN
           IF lastLapIndex \notin 0..(totalLaps - 1) THEN Raise(st)
           ELSE setMainPosition(st, lastLapIndex, laps[mainSession][lastLapIndex + 1] - 1)
      ELSE
        LET lapPosition == Rat(progress.num * totalLaps, progress.den)
            lapIndex == RFloor(lapPosition)
            lapProgress == Rat(lapPosition.num - lapIndex * lapPosition.den,
                               lapPosition.den)
        IN IF lapIndex \notin 0..(totalLaps - 1) THEN Raise(st)
           ELSE LET n == laps[mainSession][lapIndex + 1]
                    dataPointIndex == RRound(Rat(lapProgress.num * (n - 1),
                                                 lapProgress.den))
                IN setMainPosition(st, lapIndex, dataPointIndex)

getMainProgress == getMainState.position.normalizedProgress

\* reset re-initializing the main session only
reset_MainOnly(st) ==
    Return([st EXCEPT ![mainSession] =
               MkState(0, 0, calculateNormalizedPosition(mainSession, 0, 0))])

reset(st) == Return(initializeStates(st))

findClosestToSession(targetSession, sourceSession, sourceDataPointIndex) ==
    LET sourceState == states[sourceSession] IN
    IF ~sourceState.tracked THEN Thrown
    ELSE
      LET sourcePosition == calculateNormalizedPosition(sourceSession,
                                sourceState.currentLapIndex, sourceDataPointIndex)
      IN IF sourcePosition.threw THEN Thrown
         ELSE
           LET closestPoint == findClosestProgressPoint(targetSession,
                                   sourcePosition.normalizedProgress)
               position == calculateNormalizedPosition(targetSession,
                               closestPoint.lapIndex, closestPoint.dataPointIndex)
           IN IF position.threw THEN Thrown
              ELSE [threw |-> FALSE,
                    lapIndex |-> closestPoint.lapIndex,
                    dataPointIndex |-> closestPoint.dataPointIndex,
                    position |-> position]

(***************************************************************************)
(* LapDetection                                                            *)
(*                                                                         *)
(* A sample is [time, lapNumber, latitude, longitude]; a lap refers to its *)
(* samples by their position in the input (lap.dataPoints is a sequence of *)
(* input positions, 1-based).  The samples of the model carry local track  *)
(* coordinates (magnitude above 200) that differ in latitude only, so the  *)
(* planar distance is an integer.                                          *)
(***************************************************************************)
DefaultMinDistance == 1000
DefaultSpeedThreshold == 20
DefaultSectorCount == 3
\* assumed average lap duration of detectFromGPS, in seconds
AvgLapSeconds == 120
\* fewest samples detectFromGPS works on
MinGpsPoints == 100
BaseCoord == 300

NotRun == [run |-> FALSE]

\* integer square root
ISqrt(n) == CHOOSE r \in 0..n : r * r <= n /\ n < (r + 1) * (r + 1)

\* Earth's radius in metres
EarthRadius == 6371000

\* 2 * sin(x / 2)^2 and cos(x) for x degrees, x a multiple of 90
TwiceSinSqHalf(x) ==
    CASE x % 360 = 0 -> 0
      [] x % 360 = 180 -> 2
      [] OTHER -> 1
Cos(x) ==
    CASE x % 360 = 0 -> 1
      [] x % 360 = 180 -> -1
      [] OTHER -> 0

\* r * pi / 2 in whole numbers, pi / 2 taken as 1.570796
QuarterTurn(r) == r + (r \div 1000) * 570 + ((r \div 1000) * 796) \div 1000

\* the Haversine formula in whole metres: 0 for identical points; for
\* coordinates that are multiples of 90 degrees a is 0, 1/2 or 1, so
\* c = 2 * atan2(sqrt(a), sqrt(1 - a)) is 0, pi / 2 or pi; for other points
\* the value is not computed (-1)
Haversine(lat1, lng1, lat2, lng2) ==
    IF lat1 = lat2 /\ lng1 = lng2 THEN 0
    ELSE IF \A c \in {lat1, lng1, lat2, lng2} : c % 90 = 0
    THEN LET twiceA == TwiceSinSqHalf(lat2 - lat1)
                       + Cos(lat1) * Cos(lat2) * TwiceSinSqHalf(lng2 - lng1)
         IN CASE twiceA = 0 -> 0
              [] twiceA = 1 -> QuarterTurn(EarthRadius)
              [] OTHER -> 2 * QuarterTurn(EarthRadius)
    ELSE -1

\* VBOParser.calculateDistance
VBOParser_calculateDistance(lat1, lng1, lat2, lng2) ==
    Haversine(lat1, lng1, lat2, lng2)

calculateDistance(lat1, lng1, lat2, lng2) ==
    LET coords == {lat1, lng1, lat2, lng2}
        hasLargeValues == \E c \in coords : Abs(c) > 200
        outsideGPSRange == \E c \in coords : Abs(c) > 180
    IN IF hasLargeValues \/ outsideGPSRange
       THEN LET dx == lat2 - lat1
                dy == lng2 - lng1
            IN ISqrt(dx * dx + dy * dy)
       ELSE Haversine(lat1, lng1, lat2, lng2)

\* distance between the samples at input positions a and b
PointDistance(pts, a, b) ==
    calculateDistance(pts[a].latitude, pts[a].longitude,
                      pts[b].latitude, pts[b].longitude)

\* distances[i] of generateSectors and the distance loops of the detectors:
\* cumulative distance along points[1..i + 1] (i is 0-based)
\* the sum of the distances between consecutive points of points[lo..hi],
\* added up by halves to keep the evaluation shallow
RECURSIVE DistanceBetween(_, _, _, _)
DistanceBetween(pts, points, lo, hi) ==
    IF hi <= lo THEN 0
    ELSE IF hi = lo + 1 THEN PointDistance(pts, points[lo], points[hi])
    ELSE LET mid == (lo + hi) \div 2
         IN DistanceBetween(pts, points, lo, mid) + DistanceBetween(pts, points, mid, hi)
CumulativeDistance(pts, points, i) == DistanceBetween(pts, points, 1, i + 1)

\* the sector loop of generateSectors, from sector (0-based) on
RECURSIVE SectorLoop(_, _, _, _, _, _)
SectorLoop(pts, points, sectorCount, pointsPerSector, sector, sectors) ==
    IF sector >= sectorCount THEN sectors
    ELSE
      LET startIndex == sector * pointsPerSector
          endIndex == IF sector = sectorCount - 1 THEN Len(points) - 1
                      ELSE (sector + 1) * pointsPerSector - 1
      IN IF startIndex >= Len(points) \/ endIndex < 0 \/ startIndex > endIndex
         THEN sectors
         ELSE IF endIndex >= Len(points)
         THEN SectorLoop(pts, points, sectorCount, pointsPerSector, sector + 1, sectors)
         ELSE
           LET startTime == pts[points[startIndex + 1]].time
               endTime == pts[points[endIndex + 1]].time
           IN SectorLoop(pts, points, sectorCount, pointsPerSector, sector + 1,
                 Append(sectors,
                    [sectorNumber |-> sector + 1,
                     startTime |-> startTime,
                     endTime |-> endTime,
                     sectorTime |-> endTime - startTime,
                     startDistance |-> CumulativeDistance(pts, points, startIndex),
                     endDistance |-> CumulativeDistance(pts, points, endIndex),
                     startIndex |-> startIndex,
                     endIndex |-> endIndex]))

\* generateSectors without the lower limit of one point per sector
generateSectors_NoClamp(pts, points, sectorCount) ==
    IF Len(points) = 0 \/ sectorCount <= 0 THEN <<>>
    ELSE SectorLoop(pts, points, sectorCount,
                    Len(points) \div sectorCount, 0, <<>>)

generateSectors(pts, points, sectorCount) ==
    IF Len(points) = 0 \/ sectorCount <= 0 THEN <<>>
    ELSE SectorLoop(pts, points, sectorCount,
                    Max(1, Len(points) \div sectorCount), 0, <<>>)

\* the grouping loop of detectFromLapNumbers: the Map as a sequence of
\* [lapNumber, points] in insertion order
RECURSIVE GroupLoop(_, _, _)
GroupLoop(pts, i, lapGroups) ==
    IF i > Len(pts) THEN lapGroups
    ELSE IF pts[i].lapNumber > 0
    THEN IF \E g \in 1..Len(lapGroups) : lapGroups[g].lapNumber = pts[i].lapNumber
         THEN GroupLoop(pts, i + 1,
                 [g \in 1..Len(lapGroups) |->
                     IF lapGroups[g].lapNumber = pts[i].lapNumber
                     THEN [lapGroups[g] EXCEPT !.points = Append(@, i)]
                     ELSE lapGroups[g]])
         ELSE GroupLoop(pts, i + 1,
                 Append(lapGroups, [lapNumber |-> pts[i].lapNumber, points |-> <<i>>]))
    ELSE GroupLoop(pts, i + 1, lapGroups)

\* the min / max loop over the times of a group
RECURSIVE MinTime(_, _, _)
MinTime(pts, points, i) ==
    IF i = Len(points) THEN pts[points[i]].time
    ELSE Min(pts[points[i]].time, MinTime(pts, points, i + 1))
RECURSIVE MaxTimeOf(_, _, _)
MaxTimeOf(pts, points, i) ==
    IF i = Len(points) THEN pts[points[i]].time
    ELSE Max(pts[points[i]].time, MaxTimeOf(pts, points, i + 1))

\* the lap object with every sector but the first starting at the end of
\* the sector before
MkLap_AbuttingSectors(pts, lapNumber, startTime, endTime, points, sectorCount) ==
    LET sectors == generateSectors(pts, points, sectorCount)
    IN [lapNumber |-> lapNumber,
        startTime |-> startTime,
        endTime |-> endTime,
        lapTime |-> endTime - startTime,
        distance |-> CumulativeDistance(pts, points, Len(points) - 1),
        sectors |-> [k \in 1..Len(sectors) |->
                       IF k = 1 THEN sectors[k]
                       ELSE [sectors[k] EXCEPT
                               !.startTime = sectors[k - 1].endTime,
                               !.sectorTime = sectors[k].endTime - sectors[k - 1].endTime]],
        dataPoints |-> points,
        isValid |-> TRUE,
        label |-> "timed-lap"]

MkLap(pts, lapNumber, startTime, endTime, points, sectorCount) ==
    [lapNumber |-> lapNumber,
     startTime |-> startTime,
     endTime |-> endTime,
     lapTime |-> endTime - startTime,
     distance |-> CumulativeDistance(pts, points, Len(points) - 1),
     sectors |-> generateSectors(pts, points, sectorCount),
     dataPoints |-> points,
     isValid |-> TRUE,
     label |-> "timed-lap"]

\* laps.sort((a, b) => a.startTime - b.startTime): a stable sort
RECURSIVE InsertByStartTime(_, _)
InsertByStartTime(sorted, lap) ==
    IF sorted = <<>> THEN <<lap>>
    ELSE IF sorted[Len(sorted)].startTime <= lap.startTime THEN Append(sorted, lap)
    ELSE Append(InsertByStartTime(SubSeq(sorted, 1, Len(sorted) - 1), lap),
                sorted[Len(sorted)])
RECURSIVE SortByStartTime(_)
SortByStartTime(ls) ==
    IF ls = <<>> THEN <<>>
    ELSE InsertByStartTime(SortByStartTime(SubSeq(ls, 1, Len(ls) - 1)), ls[Len(ls)])

\* detectFromLapNumbers without the final sort
detectFromLapNumbers_Unsorted(pts, o) ==
    LET lapGroups == GroupLoop(pts, 1, <<>>)
    IN [g \in 1..Len(lapGroups) |->
           MkLap(pts, lapGroups[g].lapNumber,
                 MinTime(pts, lapGroups[g].points, 1),
                 MaxTimeOf(pts, lapGroups[g].points, 1),
                 lapGroups[g].points, o.sectorCount)]

\* detectFromLapNumbers putting each sample in front of its group
detectFromLapNumbers_Prepend(pts, o) ==
    LET lapGroups == GroupLoop(pts, 1, <<>>)
        Front(points) == [k \in 1..Len(points) |-> points[Len(points) + 1 - k]]
        unsorted == [g \in 1..Len(lapGroups) |->
                       MkLap(pts, lapGroups[g].lapNumber,
                             MinTime(pts, lapGroups[g].points, 1),
                             MaxTimeOf(pts, lapGroups[g].points, 1),
                             Front(lapGroups[g].points), o.sectorCount)]
    IN SortByStartTime(unsorted)

detectFromLapNumbers(pts, o) ==
    LET lapGroups == GroupLoop(pts, 1, <<>>)
        unsorted == [g \in 1..Len(lapGroups) |->
                       MkLap(pts, lapGroups[g].lapNumber,
                             MinTime(pts, lapGroups[g].points, 1),
                             MaxTimeOf(pts, lapGroups[g].points, 1),
                             lapGroups[g].points, o.sectorCount)]
    IN SortByStartTime(unsorted)

\* the body of the chunk loop of detectFromGPS: the lap built from chunk i
\* (0-based), before the distance test
GpsChunkLap(pts, o, estimatedLapCount, pointsPerLap, i) ==
    LET startIndex == i * pointsPerLap
        endIndex == IF i = estimatedLapCount - 1 THEN Len(pts) - 1
                    ELSE (i + 1) * pointsPerLap
        lapPoints == [k \in 1..(endIndex - startIndex + 1) |-> startIndex + k]
    IN MkLap(pts, i + 1, pts[lapPoints[1]].time,
             pts[lapPoints[Len(lapPoints)]].time, lapPoints, o.sectorCount)

\* the chunk loop of detectFromGPS keeping a chunk only above minDistance
GpsLoop_Strict(pts, o, estimatedLapCount, pointsPerLap, i, found) ==
    LET Far(lap) == lap.distance > o.minDistance
    IN found \o SelectSeq([c \in 1..(estimatedLapCount - i) |->
                             GpsChunkLap(pts, o, estimatedLapCount, pointsPerLap,
                                         i + c - 1)], Far)

\* the chunk loop of detectFromGPS, from chunk i (0-based) on: the chunks are
\* built in order and those of at least minDistance are pushed
GpsLoop(pts, o, estimatedLapCount, pointsPerLap, i, found) ==
    LET Far(lap) == lap.distance >= o.minDistance
    IN found \o SelectSeq([c \in 1..(estimatedLapCount - i) |->
                             GpsChunkLap(pts, o, estimatedLapCount, pointsPerLap,
                                         i + c - 1)], Far)

detectFromGPS(pts, o) ==
    IF Len(pts) < MinGpsPoints THEN <<>>
    ELSE
      LET totalTime == pts[Len(pts)].time - pts[1].time
          estimatedLapCount == Max(1, totalTime \div AvgLapSeconds)
      IN IF estimatedLapCount < 1 THEN <<>>
         ELSE GpsLoop(pts, o, estimatedLapCount,
                      Len(pts) \div estimatedLapCount, 0, <<>>)

detectLaps(pts, o) ==
    IF Len(pts) = 0 THEN <<>>
    ELSE IF \E i \in 1..Len(pts) : pts[i].lapNumber > 0
         THEN detectFromLapNumbers(pts, o)
         ELSE detectFromGPS(pts, o)

\* the loop over lap.sectors of findBestSectorTimes; the Map is a function
\* from the sector numbers set so far.  `!current` holds when the sector
\* number has no entry and also when its entry is 0
RECURSIVE BestSectorLoop(_, _, _)
BestSectorLoop(sectors, i, best) ==
    IF i > Len(sectors) THEN best
    ELSE
      LET sector == sectors[i]
          known == sector.sectorNumber \in DOMAIN best
          notCurrent == ~known \/ best[sector.sectorNumber] = 0
      IN IF notCurrent \/ sector.sectorTime < best[sector.sectorNumber]
         THEN BestSectorLoop(sectors, i + 1,
                 [n \in DOMAIN best \cup {sector.sectorNumber} |->
                     IF n = sector.sectorNumber THEN sector.sectorTime
                     ELSE best[n]])
         ELSE BestSectorLoop(sectors, i + 1, best)

\* the loop over the laps of findBestSectorTimes
RECURSIVE BestLapLoop(_, _, _)
BestLapLoop(ls, i, best) ==
    IF i > Len(ls) THEN best
    ELSE IF ~ls[i].isValid THEN BestLapLoop(ls, i + 1, best)
    ELSE BestLapLoop(ls, i + 1, BestSectorLoop(ls[i].sectors, 1, best))

findBestSectorTimes(ls) == BestLapLoop(ls, 1, <<>>)

\* nothing has been given to findBestSectorTimes
NoBestTimes ==
    /\ lapList = <<>>
    /\ bestTimes = NotRun

(***************************************************************************)
(* VBOParser                                                               *)
(*                                                                         *)
(* The input text is the sequence of its lines, each as trim() leaves it:  *)
(* a blank line, a bracketed line (the title of a section) or a text line. *)
(* A text line carries the whole line (a channel name, when it stands      *)
(* under [header]) and its whitespace-separated fields; a field is a word  *)
(* or a number as parseFloat reads it.  Times are whole seconds, packed as *)
(* HHMMSS; coordinates are whole numbers in the file and rationals in the  *)
(* session.  A sample is reduced to time, latitude and longitude.          *)
(***************************************************************************)
Blank == [kind |-> "blank"]
Section(title) == [kind |-> "section", title |-> title]
Text(name, fields) == [kind |-> "text", name |-> name, fields |-> fields]
Word(w) == [word |-> w, isNumber |-> FALSE, number |-> 0]
Num(v) == [word |-> "", isNumber |-> TRUE, number |-> v]

\* options.maxDataPoints when the option is not set
undefined == -1
\* what the parser throws
VBOParseError == [threw |-> TRUE, error |-> "VBOParseError"]
\* the value of a field the parser could not read
null == [isNull |-> TRUE]
Value(v) == [isNull |-> FALSE, value |-> v]

\* points of the sample detectCoordinateSystem looks at
CoordinateSample == 100
\* magnitude above which a coordinate is taken for a local one
LocalAbove == 1000

\* a % b of JavaScript: the remainder has the sign of a
JsRem(a, b) == IF a >= 0 THEN a % b ELSE -((-a) % b)

\* lines.findIndex(line => line.trim() === '[title]'), 0-based, -1 if none
FindSection(ls, title) ==
    LET Hits == {i \in 1..Len(ls) : ls[i] = Section(title)}
    IN IF Hits = {} THEN -1
       ELSE (CHOOSE i \in Hits : \A j \in Hits : i <= j) - 1

\* the channel loop of parseHeader, from line i (0-based) on
RECURSIVE ChannelLoop(_, _, _)
ChannelLoop(ls, i, channels) ==
    IF i >= Len(ls) THEN channels
    ELSE IF ls[i + 1].kind # "text" THEN channels
    ELSE ChannelLoop(ls, i + 1, Append(channels, ls[i + 1].name))

\* parseHeader taking a text without [header] for one without channels
parseHeader_Lenient(ls) ==
    LET headerStartIndex == FindSection(ls, "header")
    IN IF headerStartIndex = -1 THEN [threw |-> FALSE, channels |-> <<>>]
       ELSE [threw |-> FALSE,
             channels |-> ChannelLoop(ls, headerStartIndex + 1, <<>>)]

\* parseHeader: the channel names (creation date and units are not read by
\* what follows)
parseHeader(ls) ==
    LET headerStartIndex == FindSection(ls, "header")
    IN IF headerStartIndex = -1 THEN VBOParseError
       ELSE [threw |-> FALSE,
             channels |-> ChannelLoop(ls, headerStartIndex + 1, <<>>)]

\* parseVBOTime without the fallback for values out of the HHMMSS ranges
parseVBOTime_NoFallback(field) ==
    IF ~field.isNumber THEN null
    ELSE
      LET timeNum == field.number
          hours == IF timeNum >= 0 THEN timeNum \div 10000
                   ELSE -((-timeNum + 9999) \div 10000)
          minutes == JsRem(timeNum, 10000) \div 100
          seconds == JsRem(timeNum, 100)
      IN Value(hours * 3600 + minutes * 60 + seconds)

parseVBOTime(field) ==
    IF ~field.isNumber THEN null
    ELSE
      LET timeNum == field.number
          hours == IF timeNum >= 0 THEN timeNum \div 10000
                   ELSE -((-timeNum + 9999) \div 10000)
          minutes == JsRem(timeNum, 10000) \div 100
          seconds == JsRem(timeNum, 100)
      IN IF hours < 0 \/ hours > 23 \/ minutes < 0 \/ minutes > 59
            \/ seconds < 0 \/ seconds >= 60
         THEN Value(timeNum)
         ELSE Value(hours * 3600 + minutes * 60 + seconds)

parseNumericValue(field) ==
    IF ~field.isNumber THEN null ELSE Value(field.number)

\* DEFAULT_COLUMN_NAMES_MAP, for the three properties of a sample kept here;
\* other column names map to properties that are left out
MappedName(columnName) ==
    CASE columnName = "time" -> "time"
      [] columnName \in {"lat", "latitude"} -> "latitude"
      [] columnName \in {"long", "longitude"} -> "longitude"
      [] OTHER -> "other"

defaultDataPoint == [time |-> 0, latitude |-> 0, longitude |-> 0]

\* the column loop of createDataPoint, from column i (0-based) on
RECURSIVE ColumnLoop(_, _, _, _)
ColumnLoop(values, columnMapping, i, dataPoint) ==
    IF i >= Min(Len(values), Len(columnMapping)) THEN dataPoint
    ELSE
      LET mappedName == MappedName(columnMapping[i + 1])
          numericValue == IF mappedName = "time" THEN parseVBOTime(values[i + 1])
                          ELSE parseNumericValue(values[i + 1])
      IN IF mappedName \in DOMAIN defaultDataPoint /\ ~numericValue.isNull
         THEN ColumnLoop(values, columnMapping, i + 1,
                         [dataPoint EXCEPT ![mappedName] = numericValue.value])
         ELSE ColumnLoop(values, columnMapping, i + 1, dataPoint)

\* createDataPoint keeping the seconds within the minute only
createDataPoint_SecondsOnly(values, columnMapping) ==
    LET dataPoint == ColumnLoop(values, columnMapping, 0, defaultDataPoint)
    IN [dataPoint EXCEPT !.time = JsRem(@, 60)]

createDataPoint(values, columnMapping) ==
    ColumnLoop(values, columnMapping, 0, defaultDataPoint)

\* the row loop of parseDataSectionRaw, from line i (0-based) on;
\* processedCount is Len(rawDataPoints)
RECURSIVE DataLoop(_, _, _, _, _)
DataLoop(ls, i, columnMapping, cap, rawDataPoints) ==
    IF i >= Len(ls) THEN rawDataPoints
    ELSE IF ls[i + 1].kind # "text"
    THEN DataLoop(ls, i + 1, columnMapping, cap, rawDataPoints)
    ELSE IF cap # undefined /\ Len(rawDataPoints) >= cap THEN rawDataPoints
    ELSE DataLoop(ls, i + 1, columnMapping, cap,
                  Append(rawDataPoints,
                         createDataPoint(ls[i + 1].fields, columnMapping)))

\* the column mapping of parseDataSectionRaw: the line under [column names]
\* when that section stands before [data], else the channel names
ColumnMapping(ls, header, dataStartIndex) ==
    LET columnNamesIndex == FindSection(ls, "column names")
        columnLine == IF columnNamesIndex >= 0 /\ columnNamesIndex < dataStartIndex
                         /\ ls[columnNamesIndex + 2].kind = "text"
                      THEN [f \in 1..Len(ls[columnNamesIndex + 2].fields) |->
                               ls[columnNamesIndex + 2].fields[f].word]
                      ELSE <<>>
    IN IF Len(columnLine) = 0 THEN header.channels ELSE columnLine

parseDataSectionRaw(ls, header, cap) ==
    LET dataStartIndex == FindSection(ls, "data")
    IN IF dataStartIndex = -1 THEN VBOParseError
       ELSE [threw |-> FALSE,
             rawDataPoints |->
                DataLoop(ls, dataStartIndex + 1,
                         ColumnMapping(ls, header, dataStartIndex), cap, <<>>)]

nmeaToDecimal(nmeaCoord) ==
    IF nmeaCoord = 0 THEN Rat(0, 1)
    ELSE
      LET degrees == Abs(nmeaCoord) \div 100
          minutes == Abs(nmeaCoord) % 100
      IN IF nmeaCoord < 0 THEN Rat(-(degrees * 60 + minutes), 60)
         ELSE Rat(degrees * 60 + minutes, 60)

vboxMinutesToDecimal(totalMinutes) == Rat(totalMinutes, 60)

convertCoordinate(coordinate, type) ==
    CASE type = "nmea" -> nmeaToDecimal(coordinate)
      [] type = "vbox_minutes" -> vboxMinutesToDecimal(coordinate)
      [] OTHER -> Rat(coordinate, 1)

\* detectCoordinateSystem taking a magnitude of 100 for minutes as well
detectCoordinateSystem_From100(points) ==
    LET NonZero(p) == p.latitude # 0 /\ p.longitude # 0
        nonZeroPoints == SelectSeq(points, NonZero)
        sample == SubSeq(nonZeroPoints, 1, Min(CoordinateSample, Len(nonZeroPoints)))
        Some(P(_)) == \E k \in 1..Len(sample) : P(sample[k])
        Large(p) == Abs(p.latitude) > LocalAbove \/ Abs(p.longitude) > LocalAbove
        VboxMinutes(p) ==
            /\ Abs(p.latitude) <= 90 * 60 /\ Abs(p.longitude) <= 180 * 60
            /\ (Abs(p.latitude) >= 100 \/ Abs(p.longitude) >= 100)
            /\ Abs(p.latitude) < 1000 /\ Abs(p.longitude) < 1000
        Nmea(p) ==
            LET latDegrees == Abs(p.latitude) \div 100
                latMinutes == Abs(p.latitude) - latDegrees * 100
                lonDegrees == Abs(p.longitude) \div 100
                lonMinutes == Abs(p.longitude) - lonDegrees * 100
            IN /\ latDegrees <= 90 /\ latMinutes < 60
               /\ lonDegrees <= 180 /\ lonMinutes < 60
               /\ (Abs(p.latitude) > 1000 \/ Abs(p.longitude) > 1000)
    IN IF Len(nonZeroPoints) = 0 THEN "gps"
       ELSE IF Some(Large) THEN "local"
       ELSE IF Some(VboxMinutes) THEN "vbox_minutes"
       ELSE IF Some(Nmea) THEN "nmea"
       ELSE "gps"

detectCoordinateSystem(points) ==
    LET NonZero(p) == p.latitude # 0 /\ p.longitude # 0
        nonZeroPoints == SelectSeq(points, NonZero)
        sample == SubSeq(nonZeroPoints, 1, Min(CoordinateSample, Len(nonZeroPoints)))
        Some(P(_)) == \E k \in 1..Len(sample) : P(sample[k])
        Large(p) == Abs(p.latitude) > LocalAbove \/ Abs(p.longitude) > LocalAbove
        \* |latitude| / 60 <= 90 and |longitude| / 60 <= 180
        VboxMinutes(p) ==
            /\ Abs(p.latitude) <= 90 * 60 /\ Abs(p.longitude) <= 180 * 60
            /\ (Abs(p.latitude) > 100 \/ Abs(p.longitude) > 100)
            /\ Abs(p.latitude) < 1000 /\ Abs(p.longitude) < 1000
        Nmea(p) ==
            LET latDegrees == Abs(p.latitude) \div 100
                latMinutes == Abs(p.latitude) - latDegrees * 100
                lonDegrees == Abs(p.longitude) \div 100
                lonMinutes == Abs(p.longitude) - lonDegrees * 100
            IN /\ latDegrees <= 90 /\ latMinutes < 60
               /\ lonDegrees <= 180 /\ lonMinutes < 60
               /\ (Abs(p.latitude) > 1000 \/ Abs(p.longitude) > 1000)
    IN IF Len(nonZeroPoints) = 0 THEN "gps"
       ELSE IF Some(Large) THEN "local"
       ELSE IF Some(VboxMinutes) THEN "vbox_minutes"
       ELSE IF Some(Nmea) THEN "nmea"
       ELSE "gps"

\* the minimum loop of normalizeDataPoints over points[i..], points not empty
RECURSIVE MinTimeLoop(_, _)
MinTimeLoop(points, i) ==
    IF i = Len(points) THEN points[i].time
    ELSE Min(points[i].time, MinTimeLoop(points, i + 1))

\* normalizeDataPoints taking the time of the first point for the start
normalizeDataPoints_FromFirst(points) ==
    IF Len(points) = 0 THEN points
    ELSE
      LET minTime == points[1].time
          coordinateType == detectCoordinateSystem(points)
          needsConversion == coordinateType \in {"nmea", "vbox_minutes"}
          convert(c) == IF needsConversion /\ c # 0
                        THEN convertCoordinate(c, coordinateType)
                        ELSE Rat(c, 1)
      IN [i \in 1..Len(points) |->
            [time |-> points[i].time - minTime,
             latitude |-> convert(points[i].latitude),
             longitude |-> convert(points[i].longitude)]]

normalizeDataPoints(points) ==
    IF Len(points) = 0 THEN points
    ELSE
      LET minTime == MinTimeLoop(points, 1)
          coordinateType == detectCoordinateSystem(points)
          needsConversion == coordinateType \in {"nmea", "vbox_minutes"}
          convert(c) == IF needsConversion /\ c # 0
                        THEN convertCoordinate(c, coordinateType)
                        ELSE Rat(c, 1)
      IN [i \in 1..Len(points) |->
            [time |-> points[i].time - minTime,
             latitude |-> convert(points[i].latitude),
             longitude |-> convert(points[i].longitude)]]

\* the total-time loop of parseVBOContent over rawDataPoints[i..]
RECURSIVE TotalTimeLoop(_, _, _)
TotalTimeLoop(rawDataPoints, i, totalTime) ==
    IF i > Len(rawDataPoints) THEN totalTime
    ELSE IF rawDataPoints[i].time > totalTime
    THEN TotalTimeLoop(rawDataPoints, i + 1, rawDataPoints[i].time)
    ELSE TotalTimeLoop(rawDataPoints, i + 1, totalTime)

\* parseVBOContent taking the total time from the samples after rebasing
parseVBOContent_TotalAfterRebasing(ls, cap) ==
    IF Len(ls) = 0 THEN VBOParseError
    ELSE
      LET header == parseHeader(ls)
      IN IF header.threw THEN VBOParseError
         ELSE
           LET raw == parseDataSectionRaw(ls, header, cap)
           IN IF raw.threw THEN VBOParseError
              ELSE IF Len(raw.rawDataPoints) = 0 /\ (cap = undefined \/ cap > 0)
              THEN VBOParseError
              ELSE [threw |-> FALSE,
                    dataPoints |-> normalizeDataPoints(raw.rawDataPoints),
                    laps |-> <<>>,
                    totalTime |->
                       TotalTimeLoop(normalizeDataPoints(raw.rawDataPoints), 1, 0)]

\* parseVBOContent, as parseVBOFile hands it on: the session (samples, total
\* time; laps is always empty) or the error
parseVBOContent(ls, cap) ==
    IF Len(ls) = 0 THEN VBOParseError
    ELSE
      LET header == parseHeader(ls)
      IN IF header.threw THEN VBOParseError
         ELSE
           LET raw == parseDataSectionRaw(ls, header, cap)
           IN IF raw.threw THEN VBOParseError
              ELSE IF Len(raw.rawDataPoints) = 0 /\ (cap = undefined \/ cap > 0)
              THEN VBOParseError
              ELSE [threw |-> FALSE,
                    dataPoints |-> normalizeDataPoints(raw.rawDataPoints),
                    laps |-> <<>>,
                    totalTime |-> TotalTimeLoop(raw.rawDataPoints, 1, 0)]

\* nothing has been given to the parser: the text is empty
NoParse ==
    /\ lines = <<Blank>>
    /\ maxDataPoints = undefined
    /\ parsed = NotRun

\* no distance has been asked for
NoDistance ==
    /\ endpoints = <<0, 0, 0, 0>>
    /\ distances = NotRun

NoTools == NoBestTimes /\ NoParse /\ NoDistance

\* nothing has been given to the lap detector
NoLapDetection ==
    /\ dataPoints = <<>>
    /\ opts = [minDistance |-> DefaultMinDistance,
               speedThreshold |-> DefaultSpeedThreshold,
               sectorCount |-> DefaultSectorCount]
    /\ detectedLaps = NotRun

(***************************************************************************)
(* Actions of the synchronizer: one per public call                        *)
(***************************************************************************)
LapVars == <<dataPoints, opts, detectedLaps>>
BestVars == <<lapList, bestTimes>>
ParseVars == <<lines, maxDataPoints, parsed>>
DistanceVars == <<endpoints, distances>>
Inputs == <<laps, lapNumbers, circuit, comparatorSessions, options, LapVars,
            BestVars, ParseVars, DistanceVars>>

Mutate(op, args, outcome) ==
    /\ lastOp' = op
    /\ lastArgs' = args
    /\ states' = outcome.states
    /\ lastOk' = ~outcome.threw
    /\ result' = NoResult
    /\ UNCHANGED Inputs

Constructed == lastOp # "new" /\ (lastOp = "constructor" => lastOk)

Construct ==
    /\ lastOp = "new"
    /\ Mutate("constructor", <<>>, constructor)

SetMainPosition(lapIndex, dataPointIndex) ==
    /\ Constructed
    /\ Mutate("setMainPosition", <<lapIndex, dataPointIndex>>,
              setMainPosition(states, lapIndex, dataPointIndex))

AdvanceMain(steps) ==
    /\ Constructed
    /\ Mutate("advanceMain", <<steps>>, advanceMain(states, steps))

RewindMain(steps) ==
    /\ Constructed
    /\ Mutate("rewindMain", <<steps>>, rewindMain(states, steps))

JumpToLap(lapNumber) ==
    /\ Constructed
    /\ Mutate("jumpToLap", <<lapNumber>>, jumpToLap(states, lapNumber))

SetMainProgress(progress) ==
    /\ Constructed
    /\ Mutate("setMainProgress", <<progress>>, setMainProgress(states, progress))

Reset ==
    /\ Constructed
    /\ Mutate("reset", <<>>, reset(states))

FindClosestToSession(targetSession, sourceSession, sourceDataPointIndex) ==
    /\ Constructed
    /\ lastOp' = "findClosestToSession"
    /\ lastArgs' = <<targetSession, sourceSession, sourceDataPointIndex>>
    /\ result' = findClosestToSession(targetSession, sourceSession,
                                             sourceDataPointIndex)
    /\ lastOk' = ~result'.threw
    /\ UNCHANGED <<states, Inputs>>

\* arguments tried: every valid value and the nearest invalid ones
RECURSIVE MaxOfSeq(_)
MaxOfSeq(q) == IF q = <<>> THEN 0 ELSE Max(Head(q), MaxOfSeq(Tail(q)))
LapIndexArgs == -1..Len(laps[mainSession])
DataPointIndexArgs(session) == -1..MaxOfSeq(laps[session])
StepArgs == -1..MaxSteps
LapNumberArgs == 0..(Len(laps[mainSession]) + 1)
ProgressArgs == {Rat(k, ProgressDen) : k \in -1..(ProgressDen + 1)}

\* the state the constructor leaves: every tracked session at lap 0, sample 0
Init ==
    /\ comparatorSessions \in ComparatorLists
    /\ laps \in {f \in [Sessions -> ValidShapes] :
                   /\ \A s \in Sessions \ Passed(comparatorSessions) :
                         f[s] = Bystander
                   /\ SumSeq([s \in Sessions |->
                               IF s \in Passed(comparatorSessions)
                               THEN SumSeq(f[s]) ELSE 0]) <= MaxSamples}
    /\ lapNumbers = [s \in Sessions |-> NumberedFromOne(laps[s])]
    /\ circuit = [s \in Sessions |-> 0]
    /\ options = [allowDifferentTracks |-> FALSE,
                  progressTolerance |-> DefaultProgressTolerance]
    /\ states = constructor.states
    /\ lastOp = "constructor"
    /\ lastArgs = <<>>
    /\ lastOk = TRUE
    /\ result = NoResult
    /\ calls = 0
    /\ NoLapDetection
    /\ NoTools

Next ==
    \/ \E l \in LapIndexArgs, d \in DataPointIndexArgs(mainSession) :
          SetMainPosition(l, d) /\ UNCHANGED calls
    \/ \E n \in StepArgs : AdvanceMain(n) /\ UNCHANGED calls
    \/ \E n \in StepArgs : RewindMain(n) /\ UNCHANGED calls
    \/ \E k \in LapNumberArgs : JumpToLap(k) /\ UNCHANGED calls
    \/ \E p \in ProgressArgs : SetMainProgress(p) /\ UNCHANGED calls
    \/ Reset /\ UNCHANGED calls

Spec == Init /\ [][Next]_vars

(***************************************************************************)
(* Instances that differ in options.progressTolerance only, positioned and *)
(* reset                                                                   *)
(***************************************************************************)
Tolerances == {Rat(0, 1), DefaultProgressTolerance, Rat(1, 1)}

TolInit ==
    /\ comparatorSessions \in ComparatorLists
    /\ laps \in {f \in [Sessions -> ValidShapes] :
                   /\ \A s \in Sessions \ Passed(comparatorSessions) :
                         f[s] = Bystander
                   /\ SumSeq([s \in Sessions |->
                               IF s \in Passed(comparatorSessions)
                               THEN SumSeq(f[s]) ELSE 0]) <= MaxSamples}
    /\ lapNumbers = [s \in Sessions |-> NumberedFromOne(laps[s])]
    /\ circuit = [s \in Sessions |-> 0]
    /\ options \in [allowDifferentTracks : {FALSE}, progressTolerance : Tolerances]
    /\ states = constructor.states
    /\ lastOp = "constructor"
    /\ lastArgs = <<>>
    /\ lastOk = TRUE
    /\ result = NoResult
    /\ calls = 0
    /\ NoLapDetection
    /\ NoTools

TolNext ==
    \/ \E l \in LapIndexArgs, d \in DataPointIndexArgs(mainSession) :
          SetMainPosition(l, d) /\ UNCHANGED calls
    \/ Reset /\ UNCHANGED calls

SpecTol == TolInit /\ [][TolNext]_vars

(***************************************************************************)
(* Comparators with the laps of the main session: every session passed to  *)
(* the constructor has the same number of laps and of samples in each lap  *)
(***************************************************************************)
ShapeInit ==
    /\ comparatorSessions \in ComparatorLists
    /\ laps \in {f \in [Sessions -> ValidShapes] :
                   /\ \A s \in Sessions \ Passed(comparatorSessions) :
                         f[s] = Bystander
                   /\ \A s \in Passed(comparatorSessions) : f[s] = f[mainSession]}
    /\ lapNumbers = [s \in Sessions |-> NumberedFromOne(laps[s])]
    /\ circuit = [s \in Sessions |-> 0]
    /\ options = [allowDifferentTracks |-> FALSE,
                  progressTolerance |-> DefaultProgressTolerance]
    /\ states = constructor.states
    /\ lastOp = "constructor"
    /\ lastArgs = <<>>
    /\ lastOk = TRUE
    /\ result = NoResult
    /\ calls = 0
    /\ NoLapDetection
    /\ NoTools

SpecShape == ShapeInit /\ [][Next]_vars

(***************************************************************************)
(* Cross-session queries, made at every position of the main session      *)
(***************************************************************************)
QueryNext ==
    \/ \E l \in LapIndexArgs, d \in DataPointIndexArgs(mainSession) :
          SetMainPosition(l, d) /\ UNCHANGED calls
    \/ \E t \in Sessions, s \in Sessions :
          \E i \in DataPointIndexArgs(s) :
             FindClosestToSession(t, s, i) /\ UNCHANGED calls

SpecQuery == Init /\ [][QueryNext]_vars

(***************************************************************************)
(* The constructor on arbitrary sessions                                   *)
(***************************************************************************)
CtorInit ==
    /\ comparatorSessions \in ComparatorLists
    /\ laps \in {f \in [Sessions -> CtorShapes \cup {Bystander}] :
                   \A s \in Sessions \ Passed(comparatorSessions) :
                      f[s] = Bystander}
    /\ lapNumbers = [s \in Sessions |-> NumberedFromOne(laps[s])]
    \* circuit names are only compared for equality: the main session's, when
    \* known, is circuit 1
    /\ circuit \in {c \in [Sessions -> Circuits] :
                      /\ c[mainSession] <= 1
                      /\ \A s \in Sessions \ Passed(comparatorSessions) :
                            c[s] = 0}
    /\ options \in [allowDifferentTracks : BOOLEAN,
                    progressTolerance : {DefaultProgressTolerance}]
    /\ states = NoStates
    /\ lastOp = "new"
    /\ lastArgs = <<>>
    /\ lastOk = TRUE
    /\ result = NoResult
    /\ calls = 0
    /\ NoLapDetection
    /\ NoTools

CtorNext == Construct /\ UNCHANGED calls

SpecCtor == CtorInit /\ [][CtorNext]_vars

(***************************************************************************)
(* Long sessions: every session is one lap of LongLap samples and at most  *)
(* MaxCalls calls are made; the short sessions of Init are kept            *)
(***************************************************************************)
LongSessions == \A s \in Sessions : laps[s] = <<LongLap>>

LongInit ==
    \/ Init
    \/ /\ laps = [s \in Sessions |-> <<LongLap>>]
       /\ lapNumbers = [s \in Sessions |-> NumberedFromOne(laps[s])]
       /\ circuit = [s \in Sessions |-> 0]
       /\ comparatorSessions \in ComparatorLists
       /\ options = [allowDifferentTracks |-> FALSE,
                     progressTolerance |-> DefaultProgressTolerance]
       /\ states = constructor.states
       /\ lastOp = "constructor"
       /\ lastArgs = <<>>
       /\ lastOk = TRUE
       /\ result = NoResult
       /\ calls = 0
       /\ NoLapDetection
       /\ NoTools

Count ==
    IF LongSessions THEN calls < MaxCalls /\ calls' = calls + 1
    ELSE UNCHANGED calls

LongNext ==
    \/ \E l \in LapIndexArgs, d \in -1..MaxTotal :
          SetMainPosition(l, d) /\ Count
    \/ \E n \in StepArgs : AdvanceMain(n) /\ Count
    \/ \E n \in StepArgs : RewindMain(n) /\ Count
    \/ Reset /\ Count

SpecLong == LongInit /\ [][LongNext]_vars

(***************************************************************************)
(* The lap detector on short sample sequences                              *)
(***************************************************************************)
\* a sample as logged: its time and lap number; the car moves north by the
\* same amount between consecutive samples, or stands still
Samples == [time : 0..MaxTime, lapNumber : 0..MaxLapNo]
Located(logged, step) ==
    [i \in 1..Len(logged) |->
        [time |-> logged[i].time, lapNumber |-> logged[i].lapNumber,
         latitude |-> BaseCoord + step * i, longitude |-> BaseCoord]]

MinDistances == {0, DefaultMinDistance}

DetectLaps ==
    /\ detectedLaps = NotRun
    /\ detectedLaps' = [run |-> TRUE, laps |-> detectLaps(dataPoints, opts)]
    /\ UNCHANGED <<dataPoints, opts, BestVars, ParseVars, DistanceVars>>
    /\ UNCHANGED <<laps, lapNumbers, circuit, comparatorSessions, options, states,
                   lastOp, lastArgs, lastOk, result, calls>>

LapInit ==
    /\ dataPoints \in {Located(logged, step) :
                          logged \in UNION {[1..k -> Samples] : k \in 0..MaxPoints},
                          step \in 0..MaxOffset}
    /\ opts \in [minDistance : MinDistances,
                 speedThreshold : {DefaultSpeedThreshold},
                 sectorCount : {DefaultSectorCount}]
    /\ detectedLaps = NotRun
    /\ NoTools
    /\ laps = [s \in Sessions |-> <<1>>]
    /\ lapNumbers = [s \in Sessions |-> <<1>>]
    /\ circuit = [s \in Sessions |-> 0]
    /\ comparatorSessions = <<>>
    /\ options = [allowDifferentTracks |-> FALSE,
                  progressTolerance |-> DefaultProgressTolerance]
    /\ states = NoStates
    /\ lastOp = "new"
    /\ lastArgs = <<>>
    /\ lastOk = TRUE
    /\ result = NoResult
    /\ calls = 0

LapNext == DetectLaps

SpecLaps == LapInit /\ [][LapNext]_vars

(***************************************************************************)
(* The lap detector on inputs without lap numbers: a car that moves by the *)
(* same stride from sample to sample up to some sample and then stands     *)
(* still, logged at a constant rate                                        *)
(***************************************************************************)
\* the synchronizer is not in use
NoSynchronizer ==
    /\ laps = [s \in Sessions |-> Bystander]
    /\ lapNumbers = [s \in Sessions |-> NumberedFromOne(Bystander)]
    /\ circuit = [s \in Sessions |-> 0]
    /\ comparatorSessions = <<>>
    /\ options = [allowDifferentTracks |-> FALSE,
                  progressTolerance |-> DefaultProgressTolerance]
    /\ states = NoStates
    /\ lastOp = "new"
    /\ lastArgs = <<>>
    /\ lastOk = TRUE
    /\ result = NoResult
    /\ calls = 0

GpsLengths == (0..MaxShort) \cup ((MinGpsPoints - 1)..(MinGpsPoints + MaxExtra))
\* seconds between samples; the largest makes more chunks than samples
GpsTicks == (0..MaxTick) \cup {AvgLapSeconds + MaxTick}
GpsStrides == {0, GpsStride, 2 * GpsStride}

Driven(n, tick, stride, stopAt) ==
    [i \in 1..n |->
        [time |-> (i - 1) * tick, lapNumber |-> 0,
         latitude |-> BaseCoord + stride * (IF i < stopAt THEN i ELSE stopAt),
         longitude |-> BaseCoord]]

GpsInit ==
    /\ dataPoints \in {Driven(n, tick, stride, stopAt) :
                          n \in GpsLengths, tick \in GpsTicks,
                          stride \in GpsStrides,
                          stopAt \in {0, MinGpsPoints \div 2 + 1, MinGpsPoints + MaxExtra}}
    /\ opts \in [minDistance : MinDistances,
                 speedThreshold : {DefaultSpeedThreshold},
                 sectorCount : {DefaultSectorCount}]
    /\ detectedLaps = NotRun
    /\ NoSynchronizer
    /\ NoTools

GpsNext == DetectLaps

SpecGps == GpsInit /\ [][GpsNext]_vars

(***************************************************************************)
(* The lap detector in either mode: the inputs of both kinds               *)
(***************************************************************************)
DetectInit == LapInit \/ GpsInit

DetectNext == DetectLaps

SpecDetect == DetectInit /\ [][DetectNext]_vars

(***************************************************************************)
(* Sectors: one lap, every sample carrying lap number 1, cut into the      *)
(* number of sectors given in the options                                  *)
(***************************************************************************)
OneLap(n, tick) == [i \in 1..n |-> [time |-> (i - 1) * tick, lapNumber |-> 1]]

SectorInit ==
    /\ dataPoints \in {Located(OneLap(n, tick), step) :
                          n \in 1..MaxSectorPoints, tick \in 0..MaxTime,
                          step \in 0..MaxOffset}
    /\ opts \in [minDistance : MinDistances,
                 speedThreshold : {DefaultSpeedThreshold},
                 sectorCount : -1..MaxSectorCount]
    /\ detectedLaps = NotRun
    /\ NoSynchronizer
    /\ NoTools

SectorNext == DetectLaps

SpecSectors == SectorInit /\ [][SectorNext]_vars

(***************************************************************************)
(* Best sector times over short lists of laps                              *)
(***************************************************************************)
SyncVars == <<laps, lapNumbers, circuit, comparatorSessions, options, states,
              lastOp, lastArgs, lastOk, result, calls>>

\* the sectors of a lap: numbered from 1, each with a time
SectorLists ==
    UNION {{[n \in 1..k |-> [sectorNumber |-> n, sectorTime |-> times[n]]] :
               times \in [1..k -> 0..MaxSectorTime]} : k \in 0..MaxBestSectors}
BestLaps == [isValid : BOOLEAN, sectors : SectorLists]

FindBestSectorTimes ==
    /\ bestTimes = NotRun
    /\ bestTimes' = [run |-> TRUE, best |-> findBestSectorTimes(lapList)]
    /\ UNCHANGED <<lapList, SyncVars, LapVars, ParseVars, DistanceVars>>

BestInit ==
    /\ lapList \in UNION {[1..k -> BestLaps] : k \in 0..MaxBestLaps}
    /\ bestTimes = NotRun
    /\ NoSynchronizer
    /\ NoLapDetection
    /\ NoParse
    /\ NoDistance

BestNext == FindBestSectorTimes

SpecBest == BestInit /\ [][BestNext]_vars

(***************************************************************************)
(* The parser on files put together from sections: an optional first line, *)
(* [header] with the channels time, lat and long, optionally a section     *)
(* between the two, [data] with rows and blank lines, and optionally a     *)
(* section after the rows                                                  *)
(***************************************************************************)
Name(w) == Text(w, <<Word(w)>>)
Row(time, lat, long) == Text("row", <<Num(time), Num(lat), Num(long)>>)

HeaderLines == <<Section("header"), Name("time"), Name("lat"), Name("long"), Blank>>
Preambles == {<<>>, <<Name("File created on 15/12/2023")>>}
Headers == {<<>>, HeaderLines}
Middles ==
    {<<>>,
     <<Section("comments"), Name("(c) Racelogic"), Blank>>,
     <<Section("column names"),
       Text("long lat time", <<Word("long"), Word("lat"), Word("time")>>), Blank>>}
BodyLines == {Blank} \cup {Row(t, 0, 0) : t \in 0..MaxTime}
DataSections ==
    {<<>>} \cup {<<Section("data")>> \o body :
                    body \in UNION {[1..k -> BodyLines] : k \in 0..MaxBody}}
Tails ==
    {<<>>,
     <<Section("laptiming"), Text("Start 1 2", <<Word("Start"), Num(1), Num(2)>>)>>}

\* the lines of a text: those of the empty text are one blank line
SplitLines(ls) == IF ls = <<>> THEN <<Blank>> ELSE ls

Caps == {undefined} \cup (0..MaxCap)

Parse ==
    /\ parsed = NotRun
    /\ parsed' = parseVBOContent(lines, maxDataPoints)
    /\ UNCHANGED <<lines, maxDataPoints, SyncVars, LapVars, BestVars, DistanceVars>>

ParseInit ==
    /\ lines \in {SplitLines(pre \o header \o middle \o data \o tail) :
                     pre \in Preambles, header \in Headers, middle \in Middles,
                     data \in DataSections, tail \in Tails}
    /\ maxDataPoints \in Caps
    /\ parsed = NotRun
    /\ NoSynchronizer
    /\ NoLapDetection
    /\ NoBestTimes
    /\ NoDistance

ParseNext == Parse

SpecParse == ParseInit /\ [][ParseNext]_vars

(***************************************************************************)
(* The parser on well-formed files whose rows differ in their time field:  *)
(* small numbers either side of 0, and packed times at the limits of the   *)
(* seconds, minutes and hours parts                                        *)
(***************************************************************************)
TimeFields == (-MaxBefore..MaxAfter) \cup {59, 60, 100, 6000, 10000, 235959, 240000}

\* a file with [header], [data] and the rows given
FileOf(rows) == HeaderLines \o <<Section("data")>> \o rows

TimesInit ==
    /\ lines \in {FileOf([i \in 1..Len(times) |-> Row(times[i], 0, 0)]) :
                     times \in UNION {[1..k -> TimeFields] : k \in 1..MaxRows}}
    /\ maxDataPoints \in {undefined, 1}
    /\ parsed = NotRun
    /\ NoSynchronizer
    /\ NoLapDetection
    /\ NoBestTimes
    /\ NoDistance

TimesNext == Parse

SpecTimes == TimesInit /\ [][TimesNext]_vars

(***************************************************************************)
(* The parser on well-formed files whose rows differ in their coordinates: *)
(* no fix, decimal degrees within and beyond 100, degrees and minutes       *)
(* (DDMM) above and below 1000, a minutes part of 75, total minutes, and   *)
(* local track coordinates                                                 *)
(***************************************************************************)
CoordinatePairs ==
    {<<0, 0>>, <<45, 90>>, <<-90, 100>>, <<45, -120>>, <<3130, 1215>>, <<-3130, -1215>>, <<3130, -245>>,
     <<3175, 1215>>, <<500, -700>>, <<150000, 20000>>}

CoordsInit ==
    /\ lines \in {FileOf([i \in 1..Len(pairs) |-> Row(i - 1, pairs[i][1], pairs[i][2])]) :
                     pairs \in UNION {[1..k -> CoordinatePairs] : k \in 1..MaxRows}}
    /\ maxDataPoints = undefined
    /\ parsed = NotRun
    /\ NoSynchronizer
    /\ NoLapDetection
    /\ NoBestTimes
    /\ NoDistance

CoordsNext == Parse

SpecCoords == CoordsInit /\ [][CoordsNext]_vars

(***************************************************************************)
(* The two distance functions on the same arguments: coordinates that are  *)
(* multiples of 90 degrees, within and beyond the range of GPS coordinates *)
(***************************************************************************)
GridDegrees == {90 * k : k \in -MaxQuarterTurns..MaxQuarterTurns}

CalculateDistance ==
    /\ distances = NotRun
    /\ distances' =
          [run |-> TRUE,
           parser |-> VBOParser_calculateDistance(endpoints[1], endpoints[2],
                                                  endpoints[3], endpoints[4]),
           lapDetection |-> calculateDistance(endpoints[1], endpoints[2],
                                              endpoints[3], endpoints[4])]
    /\ UNCHANGED <<endpoints, SyncVars, LapVars, BestVars, ParseVars>>

DistanceInit ==
    /\ endpoints \in GridDegrees \X GridDegrees \X GridDegrees \X GridDegrees
    /\ distances = NotRun
    /\ NoSynchronizer
    /\ NoLapDetection
    /\ NoBestTimes
    /\ NoParse

DistanceNext == CalculateDistance

SpecDistance == DistanceInit /\ [][DistanceNext]_vars

(***************************************************************************)
(* Properties of the synchronizer                                          *)
(***************************************************************************)
TrackedSessions == {mainSession} \cup Range(comparatorSessions)
PairsOf(session) ==
    UNION {{<<l, d>> : d \in 0..(laps[session][l + 1] - 1)} :
              l \in 0..(Len(laps[session]) - 1)}
ProgressAt(session, l, d) ==
    calculateNormalizedPosition(session, l, d).normalizedProgress
PositioningOps ==
    {"setMainPosition", "advanceMain", "rewindMain", "jumpToLap", "setMainProgress"}
AtStart(state) ==
    state.tracked /\ state.currentLapIndex = 0 /\ state.currentDataPointIndex = 0
\* flattened index of (l, d): samples of the laps before l, plus d
FlatIndex(session, l, d) == SumSeq(SubSeq(laps[session], 1, l)) + d
FlatOf(session, state) ==
    FlatIndex(session, state.currentLapIndex, state.currentDataPointIndex)
TotalSamples(session) == SumSeq(laps[session])

\* C1: after every successful positioning of the main session each comparator
\* is at a pair whose normalizedProgress is nearest to the main session's
\* normalizedProgress among all (lap, sample) pairs of that comparator.
C1_ComparatorsAtClosest ==
    (lastOp \in PositioningOps /\ lastOk) =>
        \A c \in Range(comparatorSessions) :
            LET target == states[mainSession].position.normalizedProgress
                here == RAbsDiff(states[c].position.normalizedProgress, target)
            IN \A l \in 0..(Len(laps[c]) - 1) : \A d \in 0..(laps[c][l + 1] - 1) :
                  RLeq(here, RAbsDiff(ProgressAt(c, l, d), target))

\* C2: the constructor throws exactly when a tracked session has no laps or an
\* empty lap, or when tracks must match and a comparator's known circuit
\* differs from the main session's known circuit; otherwise every tracked
\* session starts at lap 0, sample 0.
C2_Rejected ==
    \/ \E s \in TrackedSessions :
          Len(laps[s]) = 0 \/ \E i \in 1..Len(laps[s]) : laps[s][i] = 0
    \/ /\ ~options.allowDifferentTracks
       /\ \E c \in Range(comparatorSessions) :
             circuit[c] # 0 /\ circuit[mainSession] # 0
             /\ circuit[c] # circuit[mainSession]
C2_ConstructorValidation ==
    lastOp = "constructor" =>
        /\ lastOk <=> ~C2_Rejected
        /\ lastOk => \A s \in TrackedSessions : AtStart(states[s])
        /\ ~lastOk => states = NoStates
C2_Witness ==
    /\ lastOp = "constructor" /\ ~lastOk
    /\ \A s \in TrackedSessions :
          Len(laps[s]) > 0 /\ \A i \in 1..Len(laps[s]) : laps[s][i] > 0
    /\ comparatorSessions # <<>>

\* C3: a navigation call with a lap index or sample index out of range, an
\* unknown lap number, or a progress outside [0, 1] raises an error and leaves
\* the state of every session as it was.
C3_BadCall(op, args) ==
    \/ /\ op = "setMainPosition"
       /\ IF args[1] \notin 0..(Len(laps[mainSession]) - 1) THEN TRUE
          ELSE args[2] \notin 0..(laps[mainSession][args[1] + 1] - 1)
    \/ /\ op = "jumpToLap"
       /\ args[1] \notin Range(lapNumbers[mainSession])
    \/ /\ op = "setMainProgress"
       /\ (RLess(args[1], Rat(0, 1)) \/ RLess(Rat(1, 1), args[1]))
C3_FailedCallKeepsState ==
    [][C3_BadCall(lastOp', lastArgs') => (~lastOk' /\ states' = states)]_vars
C3_Witness ==
    /\ lastOp \in {"setMainPosition", "jumpToLap", "setMainProgress"}
    /\ ~lastOk
    /\ ~AtStart(states[mainSession])
    /\ comparatorSessions # <<>>

\* C4: advanceMain(n), n >= 0, moves the main session to flattened index
\* min(f + n, T - 1) and rewindMain(n) to max(f - n, 0), without error.
C4_AdvanceRewindFlattened ==
    [][/\ (lastOp' = "advanceMain" /\ lastArgs'[1] >= 0) =>
            /\ lastOk'
            /\ FlatOf(mainSession, states'[mainSession]) =
                   Min(FlatOf(mainSession, states[mainSession]) + lastArgs'[1],
                       TotalSamples(mainSession) - 1)
       /\ (lastOp' = "rewindMain" /\ lastArgs'[1] >= 0) =>
            /\ lastOk'
            /\ FlatOf(mainSession, states'[mainSession]) =
                   Max(FlatOf(mainSession, states[mainSession]) - lastArgs'[1], 0)
      ]_vars

\* C5: setMainProgress(p), 0 <= p < 1, puts the main session in lap
\* floor(p * L) at sample round((p * L - floor(p * L)) * (n - 1)); p = 1 puts
\* it at the last sample of the last lap; the indices are valid.
C5_Expected(p) ==
    LET L == Len(laps[mainSession]) IN
    IF p.num = p.den
    THEN [lap |-> L - 1, sample |-> laps[mainSession][L] - 1]
    ELSE LET lap == (p.num * L) \div p.den
             n == laps[mainSession][lap + 1]
             \* (p * L - lap) * (n - 1) = fracNum / p.den
             fracNum == (p.num * L - lap * p.den) * (n - 1)
         IN [lap |-> lap, sample |-> (2 * fracNum + p.den) \div (2 * p.den)]
C5_ProgressPositioning ==
    (lastOp = "setMainProgress" /\ lastArgs[1].num \in 0..lastArgs[1].den) =>
        /\ lastOk
        /\ states[mainSession].currentLapIndex = C5_Expected(lastArgs[1]).lap
        /\ states[mainSession].currentDataPointIndex = C5_Expected(lastArgs[1]).sample
        /\ states[mainSession].currentLapIndex \in 0..(Len(laps[mainSession]) - 1)
        /\ states[mainSession].currentDataPointIndex \in
              0..(laps[mainSession][states[mainSession].currentLapIndex + 1] - 1)

\* C6: setMainProgress(0) then getMainProgress() returns exactly 0;
\* setMainProgress(1) then getMainProgress() returns a value above 0.99.
C6_EdgeProgress ==
    /\ (lastOp = "setMainProgress" /\ lastArgs[1].num = 0) =>
            (lastOk /\ getMainProgress.num = 0)
    /\ (lastOp = "setMainProgress" /\ lastArgs[1].num = lastArgs[1].den) =>
            (lastOk /\ RLess(Rat(99, 100), getMainProgress))
\* C6, for a last lap of two samples or more: setMainProgress(0) then
\* getMainProgress() returns exactly 0; when the last lap has at least two
\* samples, setMainProgress(1) then getMainProgress() returns a value above 0.99.
C6_EdgeProgressAmended ==
    /\ (lastOp = "setMainProgress" /\ lastArgs[1].num = 0) =>
            (lastOk /\ getMainProgress.num = 0)
    /\ (/\ lastOp = "setMainProgress"
        /\ lastArgs[1].num = lastArgs[1].den
        /\ laps[mainSession][Len(laps[mainSession])] >= 2) =>
            (lastOk /\ RLess(Rat(99, 100), getMainProgress))
C6_Witness ==
    /\ lastOp = "setMainProgress" /\ lastArgs[1].num = lastArgs[1].den
    /\ lastOk
    /\ Len(laps[mainSession]) > 1
    /\ laps[mainSession][Len(laps[mainSession])] >= 2
    /\ mainSession \in Range(comparatorSessions)

\* C7: reset() puts every tracked session at lap 0, sample 0, and a second
\* reset() leaves the state the first one produced.
C7_ResetIdempotent ==
    lastOp = "reset" =>
        /\ lastOk
        /\ \A s \in TrackedSessions : AtStart(states[s])
        /\ reset(states) = Return(states)
C7_Witness ==
    /\ lastOp = "reset"
    /\ comparatorSessions # <<>>
    /\ TotalSamples(mainSession) > 1

\* C8: sessionProgress is non-decreasing in the lexicographic order of
\* (lap index, sample index), and advanceMain with a non-negative step count
\* never decreases the main session's sessionProgress.
C8_LexMonotone(session) ==
    \A a \in PairsOf(session), b \in PairsOf(session) :
        (a[1] < b[1] \/ (a[1] = b[1] /\ a[2] <= b[2])) =>
            RLeq(calculateNormalizedPosition(session, a[1], a[2]).sessionProgress,
                 calculateNormalizedPosition(session, b[1], b[2]).sessionProgress)
C8_ProgressMonotone ==
    [][/\ (~LongSessions => C8_LexMonotone(mainSession))
       /\ (lastOp' = "advanceMain" /\ lastArgs'[1] >= 0) =>
            RLeq(states[mainSession].position.sessionProgress,
                 states'[mainSession].position.sessionProgress)
      ]_vars

\* C9: findClosestToSession raises an error whenever the source or the target
\* session is not tracked, or the index is not a sample index of the source's
\* current lap.
C9_QueryRejectsUntracked ==
    lastOp = "findClosestToSession" =>
        LET targetSession == lastArgs[1]
            sourceSession == lastArgs[2]
            sourceDataPointIndex == lastArgs[3]
            badIndex ==
                IF ~states[sourceSession].tracked THEN TRUE
                ELSE sourceDataPointIndex \notin
                       0..(laps[sourceSession][states[sourceSession].currentLapIndex + 1] - 1)
        IN (~states[targetSession].tracked \/ ~states[sourceSession].tracked \/ badIndex)
              => ~lastOk

\* C21: in every reachable state (after construction and after any sequence
\* of navigation and reset calls, failed ones included) every tracked session
\* is at a lap index below its lap count and a sample index below the sample
\* count of that lap, and its position record is the normalized position of
\* those indices: lapProgress = index / (n - 1) (0 when n = 1),
\* sessionProgress = normalizedProgress = (lapIndex + lapProgress) / lap
\* count, all within [0, 1]
C21_WellFormed(session) ==
    LET state == states[session]
        L == Len(laps[session])
    IN /\ state.tracked
       /\ state.currentLapIndex \in 0..(L - 1)
       /\ LET l == state.currentLapIndex
              d == state.currentDataPointIndex
              n == laps[session][l + 1]
              position == state.position
              InUnit(r) == RLeq(Rat(0, 1), r) /\ RLeq(r, Rat(1, 1))
          IN /\ d \in 0..(n - 1)
             /\ position.dataPointIndex = d
             /\ position.lapNumber = lapNumbers[session][l + 1]
             /\ IF n = 1 THEN position.lapProgress.num = 0
                ELSE REq(position.lapProgress, Rat(d, n - 1))
             /\ IF n = 1 THEN REq(position.sessionProgress, Rat(l, L))
                ELSE REq(position.sessionProgress, Rat(l * (n - 1) + d, (n - 1) * L))
             /\ REq(position.normalizedProgress, position.sessionProgress)
             /\ InUnit(position.lapProgress)
             /\ InUnit(position.sessionProgress)
             /\ InUnit(position.normalizedProgress)
C21_StatesWellFormed == \A session \in TrackedSessions : C21_WellFormed(session)

\* a call has failed with the main session and a comparator away from the
\* start of their sessions
C21_Witness ==
    /\ lastOp \in PositioningOps
    /\ ~lastOk
    /\ ~AtStart(states[mainSession])
    /\ \E c \in Range(comparatorSessions) : c # mainSession /\ ~AtStart(states[c])

\* the progress values the main session can hand to the synchronization
SyncTargets ==
    {ProgressAt(mainSession, p[1], p[2]) : p \in PairsOf(mainSession)}
\* the state synchronization gives a comparator for a target, were the
\* tolerance tol
SyncedState(c, target, tol) ==
    LET found == findClosestWithTolerance(c, target, tol)
    IN MkState(found.lapIndex, found.dataPointIndex,
               calculateNormalizedPosition(c, found.lapIndex, found.dataPointIndex))

\* C22: options.progressTolerance has no effect: whatever the tolerance, the
\* search for the closest sample gives the same sample of the comparator for
\* every progress of the main session, so instances that differ in the
\* tolerance only are in the same states after the same calls (the tolerance
\* is read by that search alone); every comparator always has a matched
\* position
C22_ToleranceHasNoEffect ==
    /\ \A c \in Range(comparatorSessions), target \in SyncTargets, tol \in Tolerances :
          LET found == findClosestWithTolerance(c, target, tol)
          IN /\ found = findClosestProgressPoint(c, target)
             /\ <<found.lapIndex, found.dataPointIndex>> \in PairsOf(c)
    /\ (lastOp = "setMainPosition" /\ lastOk) =>
          \A c \in Range(comparatorSessions), tol \in Tolerances :
             states[c] = SyncedState(c, ProgressAt(mainSession, lastArgs[1], lastArgs[2]), tol)
    /\ lastOp \in {"constructor", "reset"} =>
          \A s \in TrackedSessions : AtStart(states[s])
    /\ \A c \in Range(comparatorSessions) :
          /\ states[c].tracked
          /\ <<states[c].currentLapIndex, states[c].currentDataPointIndex>> \in PairsOf(c)

\* the main session has been positioned where the nearest sample of a
\* comparator is farther away than the tolerance of the instance
C22_Witness ==
    /\ lastOp = "setMainPosition" /\ lastOk
    /\ \E c \in Range(comparatorSessions) :
          /\ c # mainSession
          /\ RLess(options.progressTolerance,
                   RAbsDiff(states[c].position.normalizedProgress,
                            states[mainSession].position.normalizedProgress))

\* the (lap, sample) pair a state is at
PairAt(state) == <<state.currentLapIndex, state.currentDataPointIndex>>
\* the first pair of a session, in (lap, sample) order, whose
\* normalizedProgress is less than 0.0001 away from target
FirstNear(session, target) ==
    LET near == {p \in PairsOf(session) :
                    RLess(RAbsDiff(ProgressAt(session, p[1], p[2]), target), ExactMatch)}
    IN CHOOSE p \in near :
          \A q \in near : p[1] < q[1] \/ (p[1] = q[1] /\ p[2] <= q[2])
\* the comparators other than the main session with as many laps as the main
\* session and as many samples in each lap
SameShape ==
    {c \in Range(comparatorSessions) : c # mainSession /\ laps[c] = laps[mainSession]}

\* samples of the session that differ in normalizedProgress are at least
\* 0.0001 apart
WellApart(session) ==
    \A p, q \in PairsOf(session) :
        LET apart == RAbsDiff(ProgressAt(session, p[1], p[2]),
                              ProgressAt(session, q[1], q[2]))
        IN REq(apart, Rat(0, 1)) \/ RLeq(ExactMatch, apart)

C27_MainPositionSet ==
    (lastOp = "setMainPosition" /\ lastOk) =>
        PairAt(states[mainSession]) = <<lastArgs[1], lastArgs[2]>>

(***************************************************************************)
(* Properties of the lap detector                                          *)
(***************************************************************************)
PositiveLapNumbers == {dataPoints[i].lapNumber : i \in 1..Len(dataPoints)} \ {0}
\* input positions of the samples carrying lap number n, in input order
RECURSIVE PositionsOf(_, _)
PositionsOf(n, i) ==
    IF i > Len(dataPoints) THEN <<>>
    ELSE IF dataPoints[i].lapNumber = n THEN <<i>> \o PositionsOf(n, i + 1)
    ELSE PositionsOf(n, i + 1)
TimesOf(points) == {dataPoints[points[k]].time : k \in 1..Len(points)}

\* C10: with a positive lap number in the input, detectLaps returns one lap per
\* distinct positive lap number, holding the samples of that number in input
\* order, with startTime / endTime the least / greatest sample time, lapTime
\* their difference, isValid true, the laps in ascending startTime order,
\* whatever minDistance is.
C10_LapsFromLapNumbers ==
    (detectedLaps.run /\ PositiveLapNumbers # {}) =>
        LET ls == detectedLaps.laps IN
        /\ Len(ls) = Cardinality(PositiveLapNumbers)
        /\ {ls[i].lapNumber : i \in 1..Len(ls)} = PositiveLapNumbers
        /\ \A i \in 1..Len(ls) :
              /\ ls[i].dataPoints = PositionsOf(ls[i].lapNumber, 1)
              /\ \A t \in TimesOf(ls[i].dataPoints) :
                    ls[i].startTime <= t /\ t <= ls[i].endTime
              /\ ls[i].startTime \in TimesOf(ls[i].dataPoints)
              /\ ls[i].endTime \in TimesOf(ls[i].dataPoints)
              /\ ls[i].lapTime = ls[i].endTime - ls[i].startTime
              /\ ls[i].isValid
        /\ \A i \in 1..(Len(ls) - 1) : ls[i].startTime <= ls[i + 1].startTime
C10_Witness ==
    /\ detectedLaps.run
    /\ Cardinality(PositiveLapNumbers) = 2
    /\ opts.minDistance = DefaultMinDistance
    /\ \E i \in 1..Len(detectedLaps.laps) :
          /\ Len(detectedLaps.laps[i].dataPoints) = 1
          /\ detectedLaps.laps[i].distance = 0
    /\ dataPoints[1].time > dataPoints[Len(dataPoints)].time

\* chunk i (0-based) of the k chunks of n samples, as input positions
GpsChunk(n, k, i) ==
    LET pointsPerLap == n \div k
        first == i * pointsPerLap + 1
        last == IF i = k - 1 THEN n ELSE (i + 1) * pointsPerLap + 1
    IN [j \in 1..(last - first + 1) |-> first + j - 1]
\* point-to-point distance along the input positions of a chunk
RECURSIVE PathLength(_, _)
PathLength(chunk, j) ==
    IF j >= Len(chunk) THEN 0
    ELSE IF j + 1 = Len(chunk) THEN PointDistance(dataPoints, chunk[j], chunk[j + 1])
    ELSE LET mid == (j + Len(chunk)) \div 2
         IN PathLength(SubSeq(chunk, 1, mid), j) + PathLength(chunk, mid)
GpsLapCount ==
    Max(1, (dataPoints[Len(dataPoints)].time - dataPoints[1].time) \div 120)
GpsKept ==
    {i \in 0..(GpsLapCount - 1) :
        PathLength(GpsChunk(Len(dataPoints), GpsLapCount, i), 1) >= opts.minDistance}

\* C11: without a positive lap number, detectLaps returns no lap for fewer than
\* 100 samples; otherwise it forms k = max(1, floor(elapsed time / 120)) chunks
\* and returns one lap for exactly the chunks whose point-to-point distance is
\* at least minDistance.
C11_GpsFallback ==
    (detectedLaps.run /\ PositiveLapNumbers = {}) =>
        LET ls == detectedLaps.laps IN
        IF Len(dataPoints) < 100 THEN ls = <<>>
        ELSE /\ Len(ls) = Cardinality(GpsKept)
             /\ {ls[j].lapNumber : j \in 1..Len(ls)} = {i + 1 : i \in GpsKept}
             /\ \A j \in 1..Len(ls) :
                   ls[j].dataPoints =
                      GpsChunk(Len(dataPoints), GpsLapCount, ls[j].lapNumber - 1)
C11_Witness ==
    /\ detectedLaps.run /\ PositiveLapNumbers = {}
    /\ Len(dataPoints) >= 100
    /\ GpsLapCount >= 2
    /\ opts.minDistance > 0
    /\ Len(detectedLaps.laps) > 0
    /\ Len(detectedLaps.laps) < GpsLapCount

\* the sectors of a lap are numbered 1.., abut, cover the n samples of the
\* lap, and all but the last hold max(1, floor(n / sectorCount)) samples
SectorsPartition(lap, sectorCount) ==
    LET n == Len(lap.dataPoints)
        sectors == lap.sectors
        m == Len(sectors)
    IN IF sectorCount <= 0 THEN sectors = <<>>
       ELSE /\ m = Min(sectorCount, n)
            /\ \A j \in 1..m :
                  /\ sectors[j].sectorNumber = j
                  /\ sectors[j].startIndex <= sectors[j].endIndex
                  /\ sectors[j].startIndex = IF j = 1 THEN 0
                                             ELSE sectors[j - 1].endIndex + 1
                  /\ j < m => sectors[j].endIndex - sectors[j].startIndex + 1
                                 = Max(1, n \div sectorCount)
                  /\ j = m => sectors[j].endIndex = n - 1

\* C12: a lap of n >= 1 samples gets no sector for a sector count s <= 0, and
\* otherwise min(s, n) sectors numbered 1..min(s, n) whose index ranges are
\* contiguous, disjoint and cover the n samples, all but the last holding
\* max(1, floor(n / s)) samples.
C12_SectorsPartition ==
    detectedLaps.run =>
        \A j \in 1..Len(detectedLaps.laps) :
            SectorsPartition(detectedLaps.laps[j], opts.sectorCount)
C12_Witness ==
    /\ detectedLaps.run
    /\ \E j \in 1..Len(detectedLaps.laps) :
          LET sectors == detectedLaps.laps[j].sectors
              m == Len(sectors)
          IN /\ m >= 2
             /\ opts.sectorCount = m
             /\ sectors[m].endIndex - sectors[m].startIndex
                   > sectors[1].endIndex - sectors[1].startIndex

\* points is a non-empty run of consecutive input positions
Contiguous(points) ==
    /\ Len(points) > 0
    /\ \A k \in 1..(Len(points) - 1) : points[k + 1] = points[k] + 1
\* the samples carrying lap number n are next to each other in the input
AdjacentSamples(n) ==
    \A a, b, c \in 1..Len(dataPoints) :
        (a < b /\ b < c /\ dataPoints[a].lapNumber = n /\ dataPoints[c].lapNumber = n)
            => dataPoints[b].lapNumber = n

PositionSet(points) == {points[q] : q \in 1..Len(points)}

\* C24: in fallback mode with N samples and k chunks, the lap of chunk i
\* (0-based) holds the floor(N / k) samples from position i * floor(N / k) on,
\* the last chunk the samples up to the end; no sample belongs to two laps,
\* and when every chunk is kept the laps cover every sample
C24_ChunksPartition ==
    (detectedLaps.run /\ PositiveLapNumbers = {} /\ Len(dataPoints) >= MinGpsPoints) =>
        LET ls == detectedLaps.laps
            N == Len(dataPoints)
            k == GpsLapCount
            size == N \div k
        IN /\ \A j \in 1..Len(ls) :
                 LET i == ls[j].lapNumber - 1
                 IN ls[j].dataPoints =
                       [q \in 1..(IF i = k - 1 THEN N - i * size ELSE size) |->
                           i * size + q]
           /\ \A a, b \in 1..Len(ls) :
                 a # b => PositionSet(ls[a].dataPoints) \cap
                          PositionSet(ls[b].dataPoints) = {}
           /\ Len(ls) = k =>
                 UNION {PositionSet(ls[j].dataPoints) : j \in 1..Len(ls)} = 1..N

\* the samples of the lap are in non-decreasing time order
TimeOrdered(lap) ==
    \A k \in 1..(Len(lap.dataPoints) - 1) :
        dataPoints[lap.dataPoints[k]].time <= dataPoints[lap.dataPoints[k + 1]].time
SectorTimes(lap) == [k \in 1..Len(lap.sectors) |-> lap.sectors[k].sectorTime]
\* the time between the end of each sector and the start of the next
SectorGaps(lap) ==
    [k \in 1..(Len(lap.sectors) - 1) |->
        lap.sectors[k + 1].startTime - lap.sectors[k].endTime]

\* C30 as stated: for a lap of samples in non-decreasing time order and a
\* sector count of at least 1, every sector starts at the end of the sector
\* before, the first at the start of the lap, the last ends at the end of the
\* lap, and the sector times add up to the lap time
C30_SectorsAbut ==
    (detectedLaps.run /\ opts.sectorCount >= 1) =>
        \A j \in 1..Len(detectedLaps.laps) :
            LET lap == detectedLaps.laps[j] IN
            TimeOrdered(lap) =>
               /\ lap.sectors # <<>>
               /\ lap.sectors[1].startTime = lap.startTime
               /\ lap.sectors[Len(lap.sectors)].endTime = lap.endTime
               /\ \A k \in 1..(Len(lap.sectors) - 1) :
                     lap.sectors[k + 1].startTime = lap.sectors[k].endTime
               /\ SumSeq(SectorTimes(lap)) = lap.lapTime

\* C30, amended: the first sector starts at the start of the lap and the last
\* ends at its end; every other sector starts at the sample that follows the
\* last sample of the sector before, so not before that sector ends; the
\* sector times and the times between consecutive sectors add up to the lap
\* time, so the sector times add up to the lap time only when each sector
\* starts at the time the sector before ends
C30_SectorsLeaveGaps ==
    (detectedLaps.run /\ opts.sectorCount >= 1) =>
        \A j \in 1..Len(detectedLaps.laps) :
            LET lap == detectedLaps.laps[j] IN
            TimeOrdered(lap) =>
               /\ lap.sectors # <<>>
               /\ lap.sectors[1].startTime = lap.startTime
               /\ lap.sectors[Len(lap.sectors)].endTime = lap.endTime
               /\ \A k \in 1..(Len(lap.sectors) - 1) :
                     /\ lap.sectors[k + 1].startTime =
                           dataPoints[lap.dataPoints[lap.sectors[k].endIndex + 2]].time
                     /\ lap.sectors[k + 1].startTime >= lap.sectors[k].endTime
               /\ SumSeq(SectorTimes(lap)) + SumSeq(SectorGaps(lap)) = lap.lapTime
               /\ SumSeq(SectorTimes(lap)) <= lap.lapTime

\* a lap of samples at different times has been cut into several sectors, one
\* of several samples
C30_Witness ==
    /\ detectedLaps.run /\ opts.sectorCount >= 2
    /\ \E j \in 1..Len(detectedLaps.laps) :
          LET lap == detectedLaps.laps[j] IN
          /\ TimeOrdered(lap)
          /\ Len(lap.sectors) >= 2
          /\ \E k \in 1..Len(lap.sectors) : lap.sectors[k].sectorTime > 0
          /\ SumSeq(SectorTimes(lap)) < lap.lapTime

(***************************************************************************)
(* Properties of the best sector times                                     *)
(***************************************************************************)
\* the sectors of the valid laps given
ValidSectors ==
    UNION {{lapList[l].sectors[k] : k \in 1..Len(lapList[l].sectors)} :
              l \in {v \in 1..Len(lapList) : lapList[v].isValid}}
\* the times they record for sector number n
ValidTimes(n) == {sec.sectorTime : sec \in {x \in ValidSectors : x.sectorNumber = n}}

\* C13: findBestSectorTimes returns a map whose keys are exactly the sector
\* numbers occurring in valid laps and whose value for a sector number is the
\* smallest sectorTime recorded for it in the valid laps, sector times of 0
\* included; invalid laps contribute nothing
C13_BestSectorTimes ==
    bestTimes # NotRun =>
       /\ DOMAIN bestTimes.best = {sec.sectorNumber : sec \in ValidSectors}
       /\ \A n \in DOMAIN bestTimes.best :
             /\ bestTimes.best[n] \in ValidTimes(n)
             /\ \A t \in ValidTimes(n) : bestTimes.best[n] <= t

(***************************************************************************)
(* Properties of the parser                                                *)
(***************************************************************************)
HasLine(title) == \E i \in 1..Len(lines) : lines[i] = Section(title)
Returned == parsed # NotRun /\ ~parsed.threw

\* C14: parsing fails with a VBOParseError and returns no session when the
\* text is empty, when it has no [header] line, or when it has no [data] line
C14_ParseErrors ==
    parsed # NotRun /\ (lines = <<Blank>> \/ ~HasLine("header") \/ ~HasLine("data"))
       => parsed = VBOParseError

\* a text with [header] and channels but without [data] has been refused
C14_Witness ==
    /\ parsed = VBOParseError
    /\ HasLine("header")
    /\ ~HasLine("data")
    /\ Len(lines) > 1

\* the rows of the [data] section: the text lines between the [data] line
\* and the next bracketed line, as positions in the text
DataRows ==
    LET start == FindSection(lines, "data") + 1
    IN {i \in (start + 1)..Len(lines) :
          /\ lines[i].kind = "text"
          /\ \A j \in (start + 1)..i : lines[j].kind # "section"}
Capped(n) == IF maxDataPoints = undefined THEN n ELSE Min(maxDataPoints, n)

\* C15: for a text with a [header] and a [data] section parsing returns a
\* session with as many samples as the [data] section has lines that are
\* neither blank nor bracketed, at most maxDataPoints when that option is set
\* (none, and no error, for a cap of 0); the lines of a section that follows
\* [data] are not counted
C15_SampleCount ==
    parsed # NotRun /\ HasLine("header") /\ HasLine("data") =>
       /\ Returned
       /\ Len(parsed.dataPoints) = Capped(Cardinality(DataRows))

\* the samples as decoded from the rows, before times are rebased
Decoded == parseDataSectionRaw(lines, parseHeader(lines), maxDataPoints).rawDataPoints
DecodedTimes == {Decoded[i].time : i \in 1..Len(Decoded)}
Sampled == Returned /\ Len(parsed.dataPoints) > 0

\* C16: for a text with [header] and a [data] section of at least one row,
\* the first sample of the session returned has time exactly 0
C16_FirstSampleAtZero ==
    Returned /\ HasLine("header") /\ Cardinality(DataRows) >= 1
             /\ Len(parsed.dataPoints) > 0
       => parsed.dataPoints[1].time = 0

\* C16, amended: the smallest sample time of the session is exactly 0, no
\* sample time is negative, and the first sample has time 0 exactly when no
\* row decodes to an earlier time than the first row
C16_EarliestSampleAtZero ==
    Sampled =>
       /\ \E i \in 1..Len(parsed.dataPoints) : parsed.dataPoints[i].time = 0
       /\ \A i \in 1..Len(parsed.dataPoints) : parsed.dataPoints[i].time >= 0
       /\ parsed.dataPoints[1].time = 0
             <=> \A t \in DecodedTimes : Decoded[1].time <= t

\* a session whose first row is not the earliest has been returned
C16_Witness ==
    /\ Sampled
    /\ Len(parsed.dataPoints) = Cardinality(DataRows)
    /\ parsed.dataPoints[1].time > 0
    /\ parsed.dataPoints[Len(parsed.dataPoints)].time = 0

\* C19: the total time of a parsed session is the largest decoded time of its
\* samples as they were before rebasing, whatever the decoded times are
\* (all of them negative included)
C19_TotalTimeIsLargestDecoded ==
    Sampled => /\ parsed.totalTime \in DecodedTimes
               /\ \A t \in DecodedTimes : t <= parsed.totalTime

TimeTokens ==
    LET first == Len(lines) - Cardinality(DataRows)
    IN [i \in 1..Len(Decoded) |-> lines[first + i].fields[1].number]
\* seconds since midnight of the HHMMSS value v, v itself when its hours,
\* minutes or seconds are out of range
SecondsOf(v) ==
    LET h == v \div 10000
        m == (v % 10000) \div 100
        sec == v % 100
    IN IF h \in 0..23 /\ m \in 0..59 /\ sec \in 0..59
       THEN h * 3600 + m * 60 + sec
       ELSE v

\* C25: a numeric time token v decodes to h*3600 + m*60 + s, with
\* h = floor(v / 10000), m = floor((v mod 10000) / 100), s = v mod 100, when
\* h is in 0..23, m in 0..59 and s in [0, 60), and to v itself otherwise;
\* decoding fails for no numeric token: every row gives a sample, whose time
\* in the session is that value less the earliest one
C25_TimeDecoding ==
    (parsed # NotRun /\ \A i \in DataRows : lines[i].fields[1].isNumber) =>
       /\ Returned
       /\ Len(parsed.dataPoints) = Capped(Cardinality(DataRows))
       /\ Len(Decoded) = Len(parsed.dataPoints)
       /\ \A i \in 1..Len(Decoded) :
             /\ Decoded[i].time = SecondsOf(TimeTokens[i])
             /\ \E j \in 1..Len(Decoded) :
                   /\ parsed.dataPoints[i].time =
                         SecondsOf(TimeTokens[i]) - SecondsOf(TimeTokens[j])
                   /\ \A k \in 1..Len(Decoded) :
                         SecondsOf(TimeTokens[j]) <= SecondsOf(TimeTokens[k])

\* a session has been returned for a row within the HHMMSS ranges past the
\* first hour and a row out of them
C25_Witness ==
    /\ Sampled
    /\ \E i, j \in 1..Len(Decoded) :
          /\ TimeTokens[i] >= 10000 /\ SecondsOf(TimeTokens[i]) # TimeTokens[i]
          /\ TimeTokens[j] >= 60 /\ SecondsOf(TimeTokens[j]) = TimeTokens[j]

\* v is within the HHMMSS ranges
PackedTime(v) ==
    /\ v \div 10000 \in 0..23
    /\ (v % 10000) \div 100 \in 0..59
    /\ v % 100 \in 0..59

\* C28 as stated: decoding preserves order: for rows with non-negative time
\* tokens a <= b the decoded times, and the times of the samples of the
\* session, are in the same order
C28_DecodingPreservesOrder ==
    Sampled =>
       \A i, j \in 1..Len(Decoded) :
          (0 <= TimeTokens[i] /\ TimeTokens[i] <= TimeTokens[j]) =>
             /\ Decoded[i].time <= Decoded[j].time
             /\ parsed.dataPoints[i].time <= parsed.dataPoints[j].time

\* C28, amended: decoding preserves order among tokens of one kind: for rows
\* with non-negative time tokens a <= b that are both within the HHMMSS
\* ranges or both out of them, the decoded times, and the times of the
\* samples of the session, are in the same order
C28_DecodingPreservesOrderOfOneKind ==
    Sampled =>
       \A i, j \in 1..Len(Decoded) :
          (/\ 0 <= TimeTokens[i] /\ TimeTokens[i] <= TimeTokens[j]
           /\ PackedTime(TimeTokens[i]) <=> PackedTime(TimeTokens[j])) =>
             /\ Decoded[i].time <= Decoded[j].time
             /\ parsed.dataPoints[i].time <= parsed.dataPoints[j].time

\* a session has been returned for two rows within the HHMMSS ranges, the
\* later one past the first minute, that decode to different times
C28_Witness ==
    /\ Sampled
    /\ \E i, j \in 1..Len(Decoded) :
          /\ 0 <= TimeTokens[i] /\ TimeTokens[i] < TimeTokens[j]
          /\ PackedTime(TimeTokens[i]) /\ PackedTime(TimeTokens[j])
          /\ TimeTokens[j] >= 100
          /\ parsed.dataPoints[i].time < parsed.dataPoints[j].time

\* v is written as degrees and minutes (DDMM) with a magnitude above 1000:
\* a degree part of at most maxDegrees and a minutes part below 60
NmeaEncoded(v, maxDegrees) ==
    /\ Abs(v) > 1000
    /\ Abs(v) \div 100 <= maxDegrees
    /\ Abs(v) % 100 < 60
\* sign(v) * (floor(|v| / 100) + (|v| mod 100) / 60)
DegreesOf(v) ==
    LET sixtieths == (Abs(v) \div 100) * 60 + (Abs(v) % 100)
    IN Rat(IF v < 0 THEN -sixtieths ELSE sixtieths, 60)
\* the rows with a position fix
Fixes == {i \in 1..Len(Decoded) : Decoded[i].latitude # 0 /\ Decoded[i].longitude # 0}

\* C17: when the coordinates of a file are written as degrees and minutes
\* (degree part within 90 / 180, minutes part below 60, magnitude above 1000)
\* the parser classifies the file as degrees and minutes and returns every
\* non-zero coordinate as sign(v) * (floor(|v| / 100) + (|v| mod 100) / 60)
C17_NmeaConverted ==
    (/\ Returned
     /\ Fixes # {}
     /\ \A i \in Fixes : /\ NmeaEncoded(Decoded[i].latitude, 90)
                         /\ NmeaEncoded(Decoded[i].longitude, 180))
       => /\ detectCoordinateSystem(Decoded) = "nmea"
          /\ \A i \in Fixes :
                /\ REq(parsed.dataPoints[i].latitude, DegreesOf(Decoded[i].latitude))
                /\ REq(parsed.dataPoints[i].longitude, DegreesOf(Decoded[i].longitude))

\* every row is within the ranges of decimal degrees
DecimalDegrees ==
    \A i \in 1..Len(Decoded) :
        /\ Abs(Decoded[i].latitude) <= 90
        /\ Abs(Decoded[i].longitude) <= 180
\* the coordinates of the session are those of the rows
Unchanged ==
    \A i \in 1..Len(Decoded) :
        /\ REq(parsed.dataPoints[i].latitude, Rat(Decoded[i].latitude, 1))
        /\ REq(parsed.dataPoints[i].longitude, Rat(Decoded[i].longitude, 1))

DualMode(lat1, lng1, lat2, lng2) ==
    IF \E c \in {lat1, lng1, lat2, lng2} : Abs(c) > 200
    THEN ISqrt((lat2 - lat1) * (lat2 - lat1) + (lng2 - lng1) * (lng2 - lng1))
    ELSE Haversine(lat1, lng1, lat2, lng2)

\* C18: VBOParser.calculateDistance and LapDetection.calculateDistance both
\* follow the dual-mode rule, so they return the same distance for the same
\* arguments, and 0 for identical coordinate pairs
C18_SameDistance ==
    distances # NotRun =>
       LET rule == DualMode(endpoints[1], endpoints[2], endpoints[3], endpoints[4])
       IN /\ distances.parser = rule
          /\ distances.lapDetection = rule
          /\ distances.parser = distances.lapDetection
          /\ (endpoints[1] = endpoints[3] /\ endpoints[2] = endpoints[4])
                => distances.parser = 0 /\ distances.lapDetection = 0
====
